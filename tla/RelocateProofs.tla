--------------------------- MODULE RelocateProofs ---------------------------
(***************************************************************************)
(* Proofs about Relocate, for any set of items, places and directories and *)
(* any number of faults.                                                   *)
(***************************************************************************)
EXTENDS Relocate, TLAPS

-----------------------------------------------------------------------------
\* Renaming

\* Renaming within a tree gives a tree.
LEMMA RenamedType ==
    ASSUME NEW f \in Tree, NEW s \in Spots, NEW d \in Spots
    PROVE  Renamed(f, s, d) \in Tree
BY DEF Renamed, Tree

\* What renaming leaves at each path.
LEMMA RenamedAt ==
    ASSUME NEW f \in Tree, NEW s \in Spots, NEW d \in Spots, NEW p \in Spots
    PROVE  Renamed(f, s, d)[p] = IF p = d THEN f[s] ELSE IF p = s THEN None ELSE f[p]
BY DEF Renamed, Tree

\* Renaming to a free path and back again changes nothing.
LEMMA RenamedBack ==
    ASSUME NEW f \in Tree, NEW s \in Spots, NEW d \in Spots, s = d \/ f[d] = None
    PROVE  Renamed(Renamed(f, s, d), d, s) = f
BY DEF Renamed, Tree

-----------------------------------------------------------------------------
\* Type correctness

\* A call that runs is one of the six, between two paths, and has not answered.
Called ==
    pc # "idle" =>
        /\ op.kind \in Kinds
        /\ op.src \in Places
        /\ op.dst \in Spots
        /\ result = "none"

TInv == TypeOK /\ Called

LEMMA SnapshotType ==
    ASSUME TypeOK
    PROVE  Snapshot \in [trees : [Trees -> Tree], text : [Links -> Int], settings : Tree]
BY DEF TypeOK, Snapshot

LEMMA InitTInv == Init => TInv
<1> SUFFICES ASSUME Init PROVE TInv
  OBVIOUS
<1>1. trees \in [Trees -> Tree]
  <2>1. PICK c \in [Spots -> Items \union {None}], commented \in SUBSET Places :
           trees = [t \in Trees |->
                IF t = Content THEN c
                ELSE [s \in Spots |-> IF s \in commented THEN c[s] ELSE None]]
    BY DEF Init
  <2>2. [s \in Spots |-> IF s \in commented THEN c[s] ELSE None] \in Tree
    BY DEF Tree
  <2>. QED  BY <2>1, <2>2 DEF Tree
<1>2. text \in [Links -> Int]
  <2>1. \A p, q \in Places : Pos[p] - DirOf[q] \in Int
    BY ConstantsOK DEF Spots
  <2>2. text \in [Links -> LinkTexts]
    BY DEF Init
  <2>3. LinkTexts \subseteq Int
    BY <2>1 DEF LinkTexts
  <2>. QED  BY <2>2, <2>3
<1>3. settings \in Tree
  <2>1. settings = [s \in Spots |-> IF trees[Content][s] \in Folders
                                    THEN trees[Content][s] ELSE None]
    BY DEF Init
  <2>. QED  BY <2>1, ConstantsOK DEF Tree
<1>4. before \in [trees : [Trees -> Tree], text : [Links -> Int], settings : Tree]
  BY <1>1, <1>2, <1>3 DEF Init, Snapshot
<1>5. /\ op = NoCall /\ pc = "idle" /\ todo = {} /\ moved = {} /\ cur = Content
      /\ failures = {} /\ result = "none" /\ faults = 0 /\ torn = FALSE /\ astray = {}
  BY DEF Init
<1>6. 0 \in 0..MaxFaults
  BY ConstantsOK
<1>7. NoCall \in [kind : Kinds \union {"none"}, src : Spots \union {None},
                 dst : Spots \union {None}]
  BY DEF NoCall
<1>. QED
  BY <1>1, <1>2, <1>3, <1>4, <1>5, <1>6, <1>7
     DEF TInv, TypeOK, Called, Steps, Results, Trees

\* What a rebased link names is a number.
LEMMA RebaseLinkType ==
    ASSUME TypeOK, NEW t \in Trees, NEW s \in Spots, NEW d \in Spots,
           RebaseLink(t, s, d)
    PROVE  text' \in [Links -> Int]
<1>1. ASSUME NEW i \in Links PROVE Rebased(i, s, d) \in Int
  BY <1>1, ConstantsOK DEF Rebased, TypeOK
<1>. DEFINE i == trees[t][d]
<1>2. CASE t = Content /\ i \in Links
  BY <1>1, <1>2 DEF RebaseLink, TypeOK
<1>3. CASE ~(t = Content /\ i \in Links)
  BY <1>3 DEF RebaseLink, TypeOK
<1>. QED  BY <1>2, <1>3

\* Moving one tree keeps the trees typed.
LEMMA MovedType ==
    ASSUME trees \in [Trees -> Tree], NEW t \in Trees,
           NEW s \in Spots, NEW d \in Spots,
           trees' = [trees EXCEPT ![t] = Renamed(@, s, d)]
    PROVE  trees' \in [Trees -> Tree]
BY RenamedType

\* Another fault stays within the bound.
LEMMA FaultType ==
    ASSUME faults \in 0..MaxFaults, Fault
    PROVE  faults' \in 0..MaxFaults
BY ConstantsOK DEF Fault

\* What a folder call may write to vault.json.
LEMMA SettingsType ==
    ASSUME TypeOK, op.src \in Spots, op.dst \in Spots, NEW f \in SettingsAfter(op, settings)
    PROVE  f \in Tree
<1>. settings \in Tree
  BY DEF TypeOK
<1>1. CASE op.kind = "RenameFolder"
  <2>1. CASE settings[op.src] = None
    BY <1>1, <2>1 DEF SettingsAfter
  <2>2. CASE settings[op.src] # None
    <3>1. PICK e \in {settings[op.src], settings[op.dst]} \ {None} :
             f = [settings EXCEPT ![op.src] = None, ![op.dst] = e]
      BY <1>1, <2>2 DEF SettingsAfter
    <3>2. e \in Items
      BY <3>1 DEF Tree
    <3>. QED  BY <3>1, <3>2 DEF Tree
  <2>. QED  BY <2>1, <2>2
<1>2. CASE op.kind = "DeleteFolder"
  BY <1>2 DEF SettingsAfter, Tree
<1>3. CASE op.kind \notin {"RenameFolder", "DeleteFolder"}
  BY <1>3 DEF SettingsAfter
<1>. QED  BY <1>1, <1>2, <1>3

\* What a returning call leaves behind.
LEMMA ReturnType ==
    ASSUME NEW r \in Results, Return(r)
    PROVE  /\ pc' = "idle" /\ result' = r /\ todo' = {} /\ moved' = {}
           /\ cur' \in Trees
BY DEF Return, Trees

\* What a call that touches the vault outside a relocation leaves behind.
LEMMA ForgetType ==
    ASSUME TypeOK, Forget, trees' \in [Trees -> Tree]
    PROVE  /\ op' \in [kind : Kinds \union {"none"}, src : Spots \union {None},
                        dst : Spots \union {None}]
           /\ result' \in Results
           /\ failures' = {}
           /\ before' \in [trees : [Trees -> Tree], text : [Links -> Int], settings : Tree]
BY DEF Forget, TypeOK, NoCall, Results

LEMMA NextTInv == TInv /\ [Next]_vars => TInv'
<1> SUFFICES ASSUME TInv, [Next]_vars PROVE TInv'
  OBVIOUS
<1>. USE DEF TInv, Called
<1>0. /\ Content \in Trees /\ Comments \in Trees
      /\ \A S : First(S) \in Trees /\ Last(S) \in Trees
  BY DEF Trees, First, Last
<1>1. ASSUME NEW kind \in Kinds, NEW s \in Places, NEW d \in Spots,
             Call(kind, s, d)
      PROVE  TInv'
  <2>1. before' \in [trees : [Trees -> Tree], text : [Links -> Int], settings : Tree]
    BY <1>1, SnapshotType DEF Call
  <2>2. op' \in [kind : Kinds \union {"none"}, src : Spots \union {None},
                 dst : Spots \union {None}]
    BY <1>1 DEF Call, Spots
  <2>3. Present(s) \in SUBSET Trees
    BY DEF Present
  <2>. QED  BY <1>1, <2>1, <2>2, <2>3 DEF Call, TypeOK, vault, Steps, Results
<1>2. ASSUME NEW kind \in Kinds, NEW s \in Places, NEW d \in Spots,
             Refuse(kind, s, d)
      PROVE  TInv'
  <2>1. before' \in [trees : [Trees -> Tree], text : [Links -> Int], settings : Tree]
    BY <1>2, SnapshotType DEF Refuse
  <2>2. op' \in [kind : Kinds \union {"none"}, src : Spots \union {None},
                 dst : Spots \union {None}]
    BY <1>2 DEF Refuse, Spots
  <2>3. faults' \in 0..MaxFaults
    BY <1>2, FaultType DEF Refuse, TypeOK
  <2>4. pc' = "idle" /\ result' = "refused" /\ todo' = {} /\ moved' = {} /\ cur' \in Trees
    BY <1>2, ReturnType DEF Refuse, Results
  <2>. QED  BY <1>2, <2>1, <2>2, <2>3, <2>4 DEF Refuse, TypeOK, vault, Steps, Results
<1>3. CASE MoveTree
  <2>1. trees' \in [Trees -> Tree]
    BY <1>0, <1>3, MovedType DEF MoveTree, TypeOK, Spots
  <2>. QED  BY <1>0, <1>3, <2>1 DEF MoveTree, TypeOK, Steps
<1>4. CASE MoveFails
  BY <1>4, FaultType DEF MoveFails, TypeOK, vault, Steps
<1>5. CASE RebaseTree
  <2>1. text' \in [Links -> Int]
    BY <1>5, RebaseLinkType DEF RebaseTree, TypeOK, Spots
  <2>. QED  BY <1>5, <2>1 DEF RebaseTree, TypeOK, Steps
<1>6. CASE RebaseFails
  BY <1>6, FaultType DEF RebaseFails, TypeOK, vault, Steps
<1>7. CASE Persist
  <2>1. settings' \in Tree /\ astray' \in SUBSET Folders
    BY <1>7, SettingsType DEF Persist, Strays, TypeOK, Spots
  <2>2. CASE Deleting(op.kind)
    BY <1>7, <2>1, <2>2 DEF Persist, TypeOK, Steps
  <2>3. CASE ~Deleting(op.kind)
    <3>1. pc' = "idle" /\ result' = "ok" /\ todo' = {} /\ moved' = {} /\ cur' \in Trees
      BY <1>7, <2>3, ReturnType DEF Persist, Results
    <3>. QED  BY <1>7, <2>1, <3>1 DEF Persist, TypeOK, Steps, Results
  <2>. QED  BY <2>2, <2>3
<1>8. CASE ReadMetaFails
  BY <1>8, FaultType DEF ReadMetaFails, TypeOK, vault, Steps
<1>9. CASE SetSettingsFails
  <2>1. settings' \in Tree /\ astray' \in SUBSET Folders
    BY <1>9, SettingsType DEF SetSettingsFails, Strays, TypeOK, Spots
  <2>. QED  BY <1>9, <2>1, FaultType DEF SetSettingsFails, TypeOK, Steps
<1>10. CASE RollBackTree
  <2>1. trees' \in [Trees -> Tree]
    BY <1>0, <1>10, MovedType DEF RollBackTree, TypeOK, Spots
  <2>. QED  BY <1>0, <1>10, <2>1 DEF RollBackTree, TypeOK, Steps
<1>11. CASE RollBackFails
  <2>1. <<"rename", Last(moved)>> \in {"rename", "rebase"} \X Trees
    BY <1>0
  <2>. QED  BY <1>0, <1>11, <2>1, FaultType DEF RollBackFails, TypeOK, vault, Steps
<1>12. CASE RebaseBack
  <2>1. text' \in [Links -> Int]
    BY <1>12, RebaseLinkType DEF RebaseBack, TypeOK, Spots
  <2>. QED  BY <1>12, <2>1 DEF RebaseBack, TypeOK, Steps
<1>13. CASE RebaseBackFails
  <2>1. <<"rebase", cur>> \in {"rename", "rebase"} \X Trees
    BY DEF TypeOK
  <2>. QED  BY <1>13, <2>1, FaultType DEF RebaseBackFails, TypeOK, vault, Steps
<1>14. CASE RolledBack
  <2>1. pc' = "idle" /\ result' \in Results /\ todo' = {} /\ moved' = {} /\ cur' \in Trees
    BY <1>14, ReturnType DEF RolledBack, Results
  <2>2. torn' \in BOOLEAN
    BY <1>14 DEF RolledBack
  <2>. QED  BY <1>14, <2>1, <2>2 DEF RolledBack, TypeOK, vault, Steps
<1>15. CASE Cleanup
  <2>1. trees' \in [Trees -> Tree]
    BY <1>15 DEF Cleanup, TypeOK, Tree
  <2>2. pc' = "idle" /\ result' = "ok" /\ todo' = {} /\ moved' = {} /\ cur' \in Trees
    BY <1>15, ReturnType DEF Cleanup, Results
  <2>3. faults' \in 0..MaxFaults
    BY <1>15, FaultType DEF Cleanup, TypeOK
  <2>. QED  BY <1>15, <2>1, <2>2, <2>3 DEF Cleanup, TypeOK, Steps, Results
<1>16. CASE Crash
  <2>1. pc' = "idle" /\ result' = "crash" /\ todo' = {} /\ moved' = {} /\ cur' \in Trees
    BY <1>16, ReturnType DEF Crash, Results
  <2>. QED  BY <1>16, <2>1, FaultType DEF Crash, TypeOK, vault, Steps, Results
<1>17. ASSUME NEW i \in Items, NEW p \in Places, CreateNote(i, p)
       PROVE  TInv'
  <2>1. trees' \in [Trees -> Tree]
    BY <1>0, <1>17 DEF CreateNote, TypeOK, Tree, Spots
  <2>. QED  BY <1>17, <2>1, ForgetType DEF CreateNote, TypeOK
<1>18. ASSUME NEW i \in Items, NEW p \in Places, WriteComments(i, p)
       PROVE  TInv'
  <2>1. trees' \in [Trees -> Tree]
    <3>1. PICK c \in {i, None} : trees' = [trees EXCEPT ![Comments][p] = c]
      BY <1>18 DEF WriteComments
    <3>. QED  BY <1>0, <3>1 DEF TypeOK, Tree, Spots
  <2>2. faults' \in 0..MaxFaults /\ torn' \in BOOLEAN
    BY <1>18, FaultType DEF WriteComments, TypeOK
  <2>. QED  BY <1>18, <2>1, <2>2, ForgetType DEF WriteComments, TypeOK
<1>19. ASSUME NEW i \in Items, NEW s \in Places, NEW p \in Places,
              DuplicateNote(i, s, p)
       PROVE  TInv'
  <2>1. trees' \in [Trees -> Tree]
    <3>. DEFINE c == IF trees[Comments][s] = None THEN trees[Comments][p] ELSE i
    <3>1. trees[Content][p] \in Items \union {None} /\ c \in Items \union {None}
      BY <1>0 DEF TypeOK, Tree, Spots
    <3>2. trees' = [trees EXCEPT ![Content] = [@ EXCEPT ![p] = i],
                                 ![Comments] = [@ EXCEPT ![p] = c]]
      BY <1>0, <1>19 DEF DuplicateNote, TypeOK, Tree, Content, Comments
    <3>. QED  BY <1>0, <3>1, <3>2 DEF TypeOK, Tree, Spots
  <2>. QED  BY <1>19, <2>1, ForgetType DEF DuplicateNote, TypeOK
<1>20. CASE UNCHANGED vars
  BY <1>20 DEF vars, TypeOK
<1>. QED
  BY <1>1, <1>2, <1>3, <1>4, <1>5, <1>6, <1>7, <1>8, <1>9, <1>10, <1>11, <1>12,
     <1>13, <1>14, <1>15, <1>16, <1>17, <1>18, <1>19, <1>20 DEF Next, CallStep

LEMMA TInvCorrect == Spec => []TInv
BY InitTInv, NextTInv, PTL DEF Spec

\* Every state the vault, a call in progress and its answer can be in is one
\* the model's types allow; a call that is not running has no move pending.
THEOREM TypeCorrect == Spec => []TypeOK
BY TInvCorrect, PTL DEF TInv

-----------------------------------------------------------------------------
\* The inductive invariant of the three safety properties

Old(t) == before.trees[t]

\* Tree t is at the destination: moved and not put back, or its rename back
\* has failed.
There(t) == t \in moved \/ <<"rename", t>> \in failures

\* The call has met no error yet.
Forward == pc \in {"move", "rebase", "persist"}

ForwardInv ==
    Forward =>
        /\ failures = {}
        /\ todo \union moved = {t \in Trees : Old(t)[Src] # None}
        /\ pc = "move" => todo # {}
        /\ pc = "persist" => todo = {}

\* Each tree is as it was, or as one rename leaves it; one put back has been
\* through both renames.
TreesInv ==
    Busy => \A t \in Trees :
        IF There(t) THEN trees[t] = Renamed(Old(t), Src, Dst)
        ELSE \/ trees[t] = Old(t)
             \/ ~Forward /\ trees[t] = Renamed(Renamed(Old(t), Src, Dst), Dst, Src)

\* No comments were waiting at the destination.
FreeInv == Busy => Src = Dst \/ Old(Comments)[Dst] = None

\* A tree whose rename back failed is not tried again.
FailedInv == \A t \in moved : <<"rename", t>> \notin failures

\* Content goes first and comes back last.
OrderInv ==
    Busy /\ failures = {} /\ Comments \in moved =>
        Content \in moved \/ Old(Content)[Src] = None

\* What CommentsNeverAhead says, also once nothing is left but the cleanup.
NeverAhead ==
    failures = {} /\ HasMoved(Comments) => Old(Content)[Src] = None \/ HasMoved(Content)
AheadInv == pc = "cleanup" \/ result = "crash" => NeverAhead

\* The comments at every path are those of the note there.
Paired(T) == \A p \in Places : T[Comments][p] \in {None, T[Content][p]}
PairedInv == ~torn => Paired(IF Busy THEN before.trees ELSE trees)

Inv ==
    /\ TInv
    /\ ForwardInv
    /\ TreesInv
    /\ FreeInv
    /\ FailedInv
    /\ OrderInv
    /\ AheadInv
    /\ PairedInv
    /\ ErrorRestoresTrees

\* What a rename and the rename back leave at each path.
LEMMA RenamedTwice ==
    ASSUME NEW f \in Tree, NEW s \in Spots, NEW d \in Spots, NEW p \in Spots
    PROVE  Renamed(Renamed(f, s, d), d, s)[p] = IF s # d /\ p = d THEN None ELSE f[p]
BY DEF Renamed, Tree

\* The types the steps below need.
LEMMA RunTypes ==
    ASSUME TInv, pc # "idle"
    PROVE  /\ Src \in Spots /\ Dst \in Spots /\ Src \in Places
           /\ \A t \in Trees : Old(t) \in Tree /\ trees[t] \in Tree
           /\ Content \in Trees /\ Comments \in Trees
BY DEF TInv, TypeOK, Called, Src, Dst, Old, Trees, Spots

\* While the call runs, what has left the old path is what has been moved.
LEMMA BusyNeverAhead ==
    ASSUME TInv, Busy, TreesInv, OrderInv
    PROVE  NeverAhead
<1> SUFFICES ASSUME failures = {}, HasMoved(Comments), Old(Content)[Src] # None
             PROVE  HasMoved(Content)
  BY DEF NeverAhead
<1>1. /\ Src \in Spots /\ Dst \in Spots
      /\ \A t \in Trees : Old(t) \in Tree /\ trees[t] \in Tree
      /\ Content \in Trees /\ Comments \in Trees
  BY RunTypes DEF Busy
<1>2. ASSUME NEW t \in Trees, Old(t)[Src] # None
      PROVE  trees[t][Src] = None <=> There(t) /\ Src # Dst
  <2>1. CASE There(t)
    BY <1>1, <1>2, <2>1, RenamedAt DEF TreesInv
  <2>2. CASE ~There(t)
    BY <1>1, <1>2, <2>2, RenamedTwice DEF TreesInv
  <2>. QED  BY <2>1, <2>2
<1>3. There(Comments) /\ Src # Dst
  BY <1>1, <1>2 DEF HasMoved, Old
<1>4. There(Content)
  BY <1>3 DEF OrderInv, There
<1>. QED  BY <1>1, <1>2, <1>3, <1>4 DEF HasMoved, Old

\* When every move has been made, the comments are with their note.
LEMMA MovedPaired ==
    ASSUME TInv, pc = "persist", ForwardInv, TreesInv, FreeInv, Paired(before.trees)
    PROVE  Paired(trees)
<1>1. /\ Src \in Spots /\ Dst \in Spots /\ Src \in Places
      /\ \A t \in Trees : Old(t) \in Tree /\ trees[t] \in Tree
      /\ Content \in Trees /\ Comments \in Trees
  BY RunTypes
<1>2. \A t \in Trees : There(t) <=> Old(t)[Src] # None
  BY DEF ForwardInv, Forward, There
<1>3. ASSUME NEW t \in Trees, NEW p \in Spots
      PROVE  trees[t][p] = IF Old(t)[Src] = None THEN Old(t)[p]
                           ELSE IF p = Dst THEN Old(t)[Src]
                           ELSE IF p = Src THEN None ELSE Old(t)[p]
  <2>1. CASE There(t)
    BY <1>1, <1>2, <2>1, RenamedAt DEF TreesInv, Busy
  <2>2. CASE ~There(t)
    BY <1>2, <2>2 DEF TreesInv, Busy, Forward
  <2>. QED  BY <2>1, <2>2
<1>4. Src = Dst \/ Old(Comments)[Dst] = None
  BY DEF FreeInv, Busy
<1>5. ASSUME NEW p \in Places PROVE Old(Comments)[p] \in {None, Old(Content)[p]}
  BY DEF Paired, Old
<1>6. ASSUME NEW p \in Places PROVE trees[Comments][p] \in {None, trees[Content][p]}
  <2>. p \in Spots
    BY DEF Spots
  <2>1. Old(Comments)[Src] \in {None, Old(Content)[Src]}
    BY <1>1, <1>5
  <2>2. Old(Comments)[p] \in {None, Old(Content)[p]}
    BY <1>5
  <2>. QED  BY <1>1, <1>3, <1>4, <2>1, <2>2
<1>. QED  BY <1>6 DEF Paired

\* When every move has been undone, the comments are with their note.
LEMMA UndonePaired ==
    ASSUME TInv, pc = "rollback", moved = {}, failures = {}, TreesInv, FreeInv,
           Paired(before.trees)
    PROVE  Paired(trees)
<1>1. /\ Src \in Spots /\ Dst \in Spots
      /\ \A t \in Trees : Old(t) \in Tree /\ trees[t] \in Tree
      /\ Content \in Trees /\ Comments \in Trees
  BY RunTypes
<1>2. ASSUME NEW t \in Trees, NEW p \in Spots
      PROVE  trees[t][p] = Old(t)[p] \/ (Src # Dst /\ p = Dst /\ trees[t][p] = None)
  BY <1>1, RenamedTwice DEF TreesInv, Busy, There
<1>3. Src = Dst \/ Old(Comments)[Dst] = None
  BY DEF FreeInv, Busy
<1>4. ASSUME NEW p \in Places PROVE trees[Comments][p] \in {None, trees[Content][p]}
  <2>1. p \in Spots /\ Old(Comments)[p] \in {None, Old(Content)[p]}
    BY DEF Paired, Old, Spots
  <2>. QED  BY <1>1, <1>2, <1>3, <2>1
<1>. QED  BY <1>4 DEF Paired

\* ...and unless something else answered to the destination's name, both trees
\* are exactly as they were.
LEMMA UndoneTrees ==
    ASSUME TInv, pc = "rollback", moved = {}, failures = {}, TreesInv, FreeInv, ~Aliased
    PROVE  trees = before.trees
<1>1. /\ Src \in Spots /\ Dst \in Spots
      /\ \A t \in Trees : Old(t) \in Tree /\ trees[t] \in Tree
      /\ Content \in Trees /\ Comments \in Trees
  BY RunTypes
<1>2. ASSUME NEW t \in Trees PROVE Src = Dst \/ Old(t)[Dst] = None
  <2>1. t = Content \/ t = Comments
    BY DEF Trees
  <2>2. CASE t = Content
    BY <2>2 DEF Aliased, Old
  <2>3. CASE t = Comments
    BY <2>3 DEF FreeInv, Busy
  <2>. QED  BY <2>1, <2>2, <2>3
<1>3. ASSUME NEW t \in Trees PROVE trees[t] = before.trees[t]
  BY <1>1, <1>2, RenamedBack DEF TreesInv, Busy, There, Old
<1>. QED  BY <1>3 DEF TInv, TypeOK

LEMMA InitInv == Init => Inv
<1> SUFFICES ASSUME Init PROVE Inv
  OBVIOUS
<1>1. TInv
  BY InitTInv
<1>2. pc = "idle" /\ moved = {} /\ result = "none"
  BY DEF Init
<1>3. Paired(trees)
  <2>1. PICK c \in [Spots -> Items \union {None}], commented \in SUBSET Places :
           trees = [t \in Trees |->
                IF t = Content THEN c
                ELSE [s \in Spots |-> IF s \in commented THEN c[s] ELSE None]]
    BY DEF Init
  <2>. QED  BY <2>1 DEF Paired, Trees, Content, Comments, Spots
<1>. QED
  BY <1>1, <1>2, <1>3
     DEF Inv, ForwardInv, TreesInv, FreeInv, FailedInv, OrderInv, AheadInv,
         PairedInv, ErrorRestoresTrees, Forward, Busy

\* A step that leaves the trees and the record of the moves alone, and stays in
\* the same direction, keeps what is known about them.
LEMMA SameTrees ==
    ASSUME TreesInv, FreeInv, FailedInv, Busy,
           UNCHANGED <<trees, before, op, moved, failures>>, Forward' => Forward
    PROVE  TreesInv' /\ FreeInv' /\ FailedInv'
BY DEF TreesInv, FreeInv, FailedInv, There, Old, Src, Dst

\* A call that has ended leaves only its answer to account for.
LEMMA Idle ==
    ASSUME pc' = "idle", moved' = {}
    PROVE  /\ ForwardInv' /\ TreesInv' /\ FreeInv' /\ FailedInv' /\ OrderInv'
           /\ (result' # "crash" => AheadInv')
           /\ PairedInv' = (~torn' => Paired(trees'))
BY DEF ForwardInv, TreesInv, FreeInv, FailedInv, OrderInv, AheadInv, PairedInv,
       Forward, Busy, Paired

LEMMA NextInv == Inv /\ [Next]_vars => Inv'
<1> SUFFICES ASSUME Inv, [Next]_vars PROVE Inv'
  OBVIOUS
<1>0. /\ TInv /\ TInv' /\ ForwardInv /\ TreesInv /\ FreeInv /\ FailedInv /\ OrderInv
      /\ AheadInv /\ PairedInv /\ ErrorRestoresTrees
  BY NextTInv DEF Inv
<1>a. Content \in Trees /\ Comments \in Trees /\ Content # Comments
      /\ Trees = {Content, Comments}
  BY DEF Trees, Content, Comments
<1>. USE <1>0, <1>a
<1>1. ASSUME NEW kind \in Kinds, NEW s \in Places, NEW d \in Spots,
             Call(kind, s, d)
      PROVE  Inv'
  <2>1. /\ pc = "idle" /\ pc' \in {"move", "persist"} /\ Busy'
        /\ moved' = {} /\ failures' = {} /\ result' = "none"
        /\ Src' = s /\ Dst' = d /\ before'.trees = trees /\ trees' = trees
        /\ torn' = torn
        /\ todo' = {t \in Trees : trees[t][s] # None}
        /\ pc' = "move" => todo' # {}
        /\ pc' = "persist" => todo' = {}
    BY <1>1 DEF Call, Present, Busy, Src, Dst, Snapshot, vault
  <2>2. ForwardInv'
    BY <2>1 DEF ForwardInv, Old
  <2>3. TreesInv' /\ FailedInv' /\ OrderInv'
    BY <2>1 DEF TreesInv, FailedInv, OrderInv, There, Old
  <2>4. FreeInv'
    BY <1>1, <2>1 DEF FreeInv, Old, Call, Collides, SameFile
  <2>5. AheadInv' /\ PairedInv' /\ ErrorRestoresTrees'
    BY <2>1 DEF AheadInv, PairedInv, ErrorRestoresTrees, Busy, Paired
  <2>. QED  BY <2>2, <2>3, <2>4, <2>5 DEF Inv
<1>2. ASSUME NEW kind \in Kinds, NEW s \in Places, NEW d \in Spots,
             Refuse(kind, s, d)
      PROVE  Inv'
  <2>1. /\ pc = "idle" /\ pc' = "idle" /\ moved' = {} /\ result' = "refused"
        /\ trees' = trees /\ torn' = torn
    BY <1>2 DEF Refuse, Return, vault
  <2>. QED  BY <2>1, Idle DEF Inv, PairedInv, ErrorRestoresTrees, Busy, Paired
<1>3. CASE MoveTree
  <2>. DEFINE t == First(todo)
  <2>1. /\ pc = "move" /\ pc' = "rebase" /\ Busy /\ Busy' /\ Forward /\ Forward'
        /\ UNCHANGED <<before, op, failures, result, torn>>
        /\ moved' = moved \union {t} /\ todo' = todo \ {t}
        /\ trees' = [trees EXCEPT ![t] = Renamed(@, op.src, op.dst)]
        /\ result = "none"
    BY <1>3 DEF MoveTree, Busy, Forward, TInv, Called
  <2>2. todo # {} /\ todo \subseteq Trees /\ failures = {}
        /\ todo \intersect moved = {}
    BY <2>1 DEF ForwardInv, TInv, TypeOK
  <2>3. t \in todo /\ (t = Comments => Content \notin todo)
    BY <2>2 DEF First
  <2>4. ForwardInv'
    BY <2>1, <2>2, <2>3 DEF ForwardInv, Old, Src
  <2>5. TreesInv'
    <3>1. trees[t] = Old(t)
      BY <2>1, <2>2, <2>3 DEF TreesInv, There
    <3>2. trees'[t] = Renamed(Old(t), op.src, op.dst)
      BY <2>1, <2>2, <2>3, <3>1 DEF TInv, TypeOK
    <3>3. \A u \in Trees : u # t => trees'[u] = trees[u]
      BY <2>1 DEF TInv, TypeOK
    <3>. QED  BY <2>1, <2>2, <3>2, <3>3 DEF TreesInv, There, Old, Src, Dst
  <2>6. FreeInv' /\ FailedInv'
    BY <2>1, <2>2 DEF FreeInv, FailedInv, Old, Src, Dst
  <2>7. OrderInv'
    <3>1. Content \in todo \/ Content \in moved \/ Old(Content)[Src] = None
      BY <2>1 DEF ForwardInv
    <3>. QED  BY <2>1, <2>3, <3>1 DEF OrderInv, Old, Src
  <2>8. AheadInv' /\ PairedInv' /\ ErrorRestoresTrees'
    BY <2>1 DEF AheadInv, PairedInv, ErrorRestoresTrees, Paired
  <2>. QED  BY <2>4, <2>5, <2>6, <2>7, <2>8 DEF Inv
<1>4. CASE MoveFails \/ RebaseFails \/ ReadMetaFails \/ SetSettingsFails
  <2>1. /\ Busy /\ Forward /\ pc' = "rollback" /\ Busy' /\ ~Forward'
        /\ UNCHANGED <<trees, before, op, moved, failures, result, torn>>
        /\ result = "none"
    BY <1>4 DEF MoveFails, RebaseFails, ReadMetaFails, SetSettingsFails, Busy,
                Forward, vault, TInv, Called
  <2>2. TreesInv' /\ FreeInv' /\ FailedInv'
    BY <2>1, SameTrees
  <2>3. ForwardInv' /\ OrderInv' /\ AheadInv' /\ PairedInv' /\ ErrorRestoresTrees'
    BY <1>4, <2>1 DEF ForwardInv, OrderInv, AheadInv, PairedInv, ErrorRestoresTrees,
                Old, Src, Paired, Busy
  <2>. QED  BY <2>2, <2>3 DEF Inv
<1>5. CASE RebaseTree
  <2>1. /\ Busy /\ Forward /\ Busy' /\ Forward' /\ pc = "rebase"
        /\ UNCHANGED <<trees, before, op, todo, moved, failures, result, torn>>
        /\ pc' = IF todo = {} THEN "persist" ELSE "move"
        /\ result = "none"
    BY <1>5 DEF RebaseTree, Busy, Forward, TInv, Called
  <2>2. TreesInv' /\ FreeInv' /\ FailedInv'
    BY <2>1, SameTrees
  <2>3. ForwardInv'
    BY <2>1 DEF ForwardInv, Old, Src
  <2>4. OrderInv' /\ AheadInv' /\ PairedInv' /\ ErrorRestoresTrees'
    BY <2>1 DEF OrderInv, AheadInv, PairedInv, ErrorRestoresTrees, Old, Src, Paired
  <2>. QED  BY <2>2, <2>3, <2>4 DEF Inv
<1>6. CASE Persist
  <2>1. /\ Busy /\ pc = "persist" /\ ~Busy' /\ ~Forward'
        /\ UNCHANGED <<trees, before, op, failures, torn>>
        /\ result = "none"
    BY <1>6 DEF Persist, Return, Busy, Forward, TInv, Called
  <2>2. NeverAhead'
    <3>1. NeverAhead
      BY <2>1, BusyNeverAhead
    <3>. QED  BY <2>1, <3>1 DEF NeverAhead, HasMoved, Old, Src
  <2>3. PairedInv'
    BY <2>1, MovedPaired DEF PairedInv, Paired
  <2>4. FailedInv' /\ ErrorRestoresTrees'
    BY <1>6, <2>1 DEF Persist, Return, FailedInv, ErrorRestoresTrees
  <2>5. ForwardInv' /\ TreesInv' /\ FreeInv' /\ OrderInv' /\ AheadInv'
    BY <2>1, <2>2 DEF ForwardInv, TreesInv, FreeInv, OrderInv, AheadInv
  <2>. QED  BY <2>3, <2>4, <2>5 DEF Inv
<1>7. CASE RollBackTree
  <2>. PICK t \in Trees : t = Last(moved)
    BY DEF Last
  <2>1. /\ Busy /\ Busy' /\ ~Forward /\ ~Forward' /\ result = "none"
        /\ UNCHANGED <<before, op, failures, result, torn>>
        /\ moved # {} /\ moved' = moved \ {t}
        /\ trees' = [trees EXCEPT ![t] = Renamed(@, op.dst, op.src)]
    BY <1>7 DEF RollBackTree, Busy, Forward, TInv, Called
  <2>2. t \in moved /\ moved \subseteq Trees /\ (t = Content => Comments \notin moved)
    BY <2>1 DEF Last, TInv, TypeOK
  <2>3. TreesInv'
    <3>1. trees[t] = Renamed(Old(t), op.src, op.dst)
      BY <2>1, <2>2 DEF TreesInv, There, Src, Dst
    <3>2. trees'[t] = Renamed(Renamed(Old(t), op.src, op.dst), op.dst, op.src)
      BY <2>1, <2>2, <3>1 DEF TInv, TypeOK
    <3>3. \A u \in Trees : u # t => trees'[u] = trees[u]
      BY <2>1 DEF TInv, TypeOK
    <3>4. ~There(t)'
      BY <2>1, <2>2 DEF FailedInv, There
    <3>5. \A u \in Trees : u # t => (There(u)' <=> There(u))
      BY <2>1 DEF There
    <3>. QED  BY <2>1, <3>2, <3>3, <3>4, <3>5 DEF TreesInv, Old, Src, Dst
  <2>4. FreeInv' /\ FailedInv' /\ OrderInv'
    BY <2>1, <2>2 DEF FreeInv, FailedInv, OrderInv, Old, Src, Dst
  <2>5. ForwardInv' /\ AheadInv' /\ PairedInv' /\ ErrorRestoresTrees'
    BY <1>7, <2>1 DEF RollBackTree, ForwardInv, AheadInv, PairedInv, ErrorRestoresTrees,
                 Paired
  <2>. QED  BY <2>3, <2>4, <2>5 DEF Inv
<1>8. CASE RollBackFails
  <2>. DEFINE t == Last(moved)
  <2>1. /\ Busy /\ Busy' /\ ~Forward /\ ~Forward' /\ result = "none"
        /\ pc' = pc /\ pc = "rollback"
        /\ UNCHANGED <<trees, before, op, result, torn>>
        /\ moved # {} /\ moved' = moved \ {t}
        /\ failures' = failures \union {<<"rename", t>>}
    BY <1>8 DEF RollBackFails, Busy, Forward, vault, TInv, Called
  <2>2. t \in moved
    BY <2>1 DEF Last, TInv, TypeOK
  <2>3. \A u \in Trees : There(u)' <=> There(u)
    BY <2>1, <2>2 DEF There
  <2>4. TreesInv' /\ FreeInv' /\ FailedInv'
    BY <2>1, <2>2, <2>3 DEF TreesInv, FreeInv, FailedInv, Old, Src, Dst
  <2>5. ForwardInv' /\ OrderInv' /\ AheadInv' /\ PairedInv' /\ ErrorRestoresTrees'
    BY <2>1 DEF ForwardInv, OrderInv, AheadInv, PairedInv, ErrorRestoresTrees, Paired
  <2>. QED  BY <2>4, <2>5 DEF Inv
<1>9. CASE RebaseBack
  <2>1. /\ Busy /\ Busy' /\ ~Forward /\ ~Forward' /\ result = "none" /\ pc' = "rollback"
        /\ UNCHANGED <<trees, before, op, moved, failures, result, torn>>
    BY <1>9 DEF RebaseBack, Busy, Forward, TInv, Called
  <2>2. TreesInv' /\ FreeInv' /\ FailedInv'
    BY <2>1, SameTrees
  <2>3. ForwardInv' /\ OrderInv' /\ AheadInv' /\ PairedInv' /\ ErrorRestoresTrees'
    BY <2>1 DEF ForwardInv, OrderInv, AheadInv, PairedInv, ErrorRestoresTrees, Old, Src,
                Paired
  <2>. QED  BY <2>2, <2>3 DEF Inv
<1>10. CASE RebaseBackFails
  <2>1. /\ Busy /\ Busy' /\ ~Forward /\ ~Forward' /\ result = "none" /\ pc' = "rollback"
        /\ UNCHANGED <<trees, before, op, moved, result, torn>>
        /\ failures' = failures \union {<<"rebase", cur>>}
    BY <1>10 DEF RebaseBackFails, Busy, Forward, vault, TInv, Called
  <2>2. \A u \in Trees : <<"rename", u>> \in failures' <=> <<"rename", u>> \in failures
    BY <2>1
  <2>3. moved \subseteq Trees
    BY DEF TInv, TypeOK
  <2>4. TreesInv' /\ FreeInv' /\ FailedInv'
    BY <2>1, <2>2, <2>3 DEF TreesInv, FreeInv, FailedInv, There, Old, Src, Dst
  <2>5. ForwardInv' /\ OrderInv' /\ AheadInv' /\ PairedInv' /\ ErrorRestoresTrees'
    BY <2>1 DEF ForwardInv, OrderInv, AheadInv, PairedInv, ErrorRestoresTrees, Paired
  <2>. QED  BY <2>4, <2>5 DEF Inv
<1>11. CASE RolledBack
  <2>1. /\ pc = "rollback" /\ Busy /\ moved = {} /\ pc' = "idle" /\ moved' = {}
        /\ UNCHANGED <<trees, before, op, failures>>
        /\ result' = IF failures = {} THEN "error" ELSE "uncertain"
        /\ torn' = (torn \/ failures # {})
    BY <1>11 DEF RolledBack, Return, vault, Busy
  <2>2. ErrorRestoresTrees'
    BY <2>1, UndoneTrees DEF ErrorRestoresTrees, Aliased, Src, Dst
  <2>3. PairedInv'
    BY <2>1, UndonePaired, Idle DEF PairedInv, Paired
  <2>. QED  BY <2>1, <2>2, <2>3, Idle DEF Inv
<1>12. CASE Cleanup
  <2>1. /\ pc = "cleanup" /\ pc' = "idle" /\ moved' = {} /\ result' = "ok"
        /\ torn' = torn
        /\ \/ trees' = [t \in Trees |-> [trees[t] EXCEPT ![op.dst] = None]]
           \/ trees' = trees
    BY <1>12 DEF Cleanup, Return
  <2>2. PairedInv'
    <3>1. ~torn => Paired(trees)
      BY <2>1 DEF PairedInv, Busy
    <3>2. \A t \in Trees, p \in Places :
             trees'[t][p] = trees[t][p] \/ trees'[Comments][p] = None
      BY <2>1 DEF TInv, TypeOK, Tree, Spots
    <3>. QED  BY <2>1, <3>1, <3>2, Idle DEF Paired
  <2>. QED  BY <2>1, <2>2, Idle DEF Inv, ErrorRestoresTrees
<1>13. CASE Crash
  <2>1. /\ pc # "idle" /\ pc' = "idle" /\ moved' = {} /\ result' = "crash" /\ torn' = TRUE
        /\ UNCHANGED <<trees, before, op, failures>>
    BY <1>13 DEF Crash, Return, vault
  <2>2. NeverAhead
    <3>1. CASE Busy
      BY <3>1, BusyNeverAhead
    <3>2. CASE ~Busy
      BY <2>1, <3>2 DEF Busy, AheadInv, TInv, TypeOK, Steps
    <3>. QED  BY <3>1, <3>2
  <2>3. AheadInv'
    BY <2>1, <2>2 DEF AheadInv, NeverAhead, HasMoved, Old, Src
  <2>. QED  BY <2>1, <2>3, Idle DEF Inv, ErrorRestoresTrees
<1>14. ASSUME NEW i \in Items, NEW p \in Places, CreateNote(i, p)
       PROVE  Inv'
  <2>1. /\ pc = "idle" /\ pc' = "idle" /\ moved' = moved /\ result' = "none" /\ torn' = torn
        /\ trees' = [trees EXCEPT ![Content][p] = i] /\ trees[Content][p] = None
    BY <1>14 DEF CreateNote, Forget
  <2>2. moved' = {}
    BY <2>1 DEF TInv, TypeOK
  <2>3. ~torn => Paired(trees)
    BY <2>1 DEF PairedInv, Busy
  <2>4. \A q \in Places : /\ trees'[Comments][q] = trees[Comments][q]
                          /\ q # p => trees'[Content][q] = trees[Content][q]
    BY <2>1 DEF TInv, TypeOK, Tree, Spots
  <2>5. PairedInv'
    BY <2>1, <2>2, <2>3, <2>4, Idle DEF Paired
  <2>. QED  BY <2>1, <2>2, <2>5, Idle DEF Inv, ErrorRestoresTrees
<1>15. ASSUME NEW i \in Items, NEW p \in Places, WriteComments(i, p)
       PROVE  Inv'
  <2>1. PICK c \in {i, None} : trees' = [trees EXCEPT ![Comments][p] = c]
    BY <1>15 DEF WriteComments
  <2>2. /\ pc = "idle" /\ pc' = "idle" /\ moved' = moved /\ result' = "none"
        /\ torn' # TRUE => trees[Content][p] = i /\ torn' = torn
    BY <1>15 DEF WriteComments, Forget
  <2>3. moved' = {}
    BY <2>2 DEF TInv, TypeOK
  <2>4. ~torn => Paired(trees)
    BY <2>2 DEF PairedInv, Busy
  <2>5. \A q \in Places : /\ trees'[Content][q] = trees[Content][q]
                          /\ q # p => trees'[Comments][q] = trees[Comments][q]
                          /\ trees'[Comments][p] = c
    BY <2>1 DEF TInv, TypeOK, Tree, Spots
  <2>6. ~torn' => Paired(trees')
    BY <2>1, <2>2, <2>4, <2>5 DEF TInv, TypeOK, Paired
  <2>7. PairedInv'
    BY <2>2, <2>3, <2>6, Idle
  <2>. QED  BY <2>7, <2>2, <2>3, <2>6, Idle DEF Inv, ErrorRestoresTrees
<1>16. ASSUME NEW i \in Items, NEW s \in Places, NEW p \in Places,
              DuplicateNote(i, s, p)
       PROVE  Inv'
  <2>. DEFINE c == IF trees[Comments][s] = None THEN trees[Comments][p] ELSE i
  <2>1. /\ pc = "idle" /\ pc' = "idle" /\ moved' = moved /\ result' = "none" /\ torn' = torn
        /\ trees[Content][p] = None
    BY <1>16 DEF DuplicateNote, Forget
  <2>2. moved' = {}
    BY <2>1 DEF TInv, TypeOK
  <2>3. ~torn => Paired(trees)
    BY <2>1 DEF PairedInv, Busy
  <2>4. trees' = [trees EXCEPT ![Content] = [@ EXCEPT ![p] = i],
                               ![Comments] = [@ EXCEPT ![p] = c]]
    BY <1>16 DEF DuplicateNote, TInv, TypeOK, Tree
  <2>5. \A q \in Places : /\ q # p => trees'[Content][q] = trees[Content][q]
                          /\ q # p => trees'[Comments][q] = trees[Comments][q]
                          /\ trees'[Content][p] = i
                          /\ trees'[Comments][p] = c
    BY <2>4 DEF TInv, TypeOK, Tree, Spots
  <2>6. PairedInv'
    BY <2>1, <2>2, <2>3, <2>5, Idle DEF Paired
  <2>. QED  BY <2>1, <2>2, <2>6, Idle DEF Inv, ErrorRestoresTrees
<1>17. CASE UNCHANGED vars
  BY <1>17 DEF vars, Inv, ForwardInv, TreesInv, FreeInv, FailedInv, OrderInv, AheadInv,
               PairedInv, ErrorRestoresTrees, Forward, Busy, There, Old, Src, Dst,
               NeverAhead, HasMoved, Paired, Aliased
<1>. QED
  BY <1>1, <1>2, <1>3, <1>4, <1>5, <1>6, <1>7, <1>8, <1>9, <1>10, <1>11, <1>12,
     <1>13, <1>14, <1>15, <1>16, <1>17 DEF Next, CallStep

LEMMA InvCorrect == Spec => []Inv
BY InitInv, NextInv, PTL DEF Spec

\* A call that fails without reporting an uncertain state has left both trees
\* where they were, at whatever step it failed.
THEOREM ErrorsRestore == Spec => []ErrorRestoresTrees
BY InvCorrect, PTL DEF Inv

\* Comments never leave a path before their note does: wherever a call has come,
\* and wherever the process stopped in it.
THEOREM CommentsStayBehind == Spec => []CommentsNeverAhead
<1>1. Inv => CommentsNeverAhead
  <2> SUFFICES ASSUME Inv, Busy \/ result = "crash" PROVE NeverAhead
    BY DEF CommentsNeverAhead, NeverAhead, Old
  <2>. QED  BY BusyNeverAhead DEF Inv, AheadInv
<1>. QED  BY <1>1, InvCorrect, PTL

\* Between calls the comments at a path are those of the note there, whatever
\* calls succeeded or failed before.
THEOREM CommentsBelong == Spec => []OwnComments
<1>1. Inv => OwnComments
  BY DEF Inv, PairedInv, Paired, OwnComments, Busy
<1>. QED  BY <1>1, InvCorrect, PTL

\* No step of a call moves a tree over another.
LEMMA StepOverwritesNothing ==
    ASSUME Inv, Next, pc # "idle" \/ pc' # "idle", ~Aliased,
           NEW t \in Trees, NEW p \in Spots, trees[t][p] # None
    PROVE  trees'[t][p] \in {trees[t][p], None}
<1>0. TInv /\ TreesInv /\ FreeInv /\ ForwardInv
  BY DEF Inv
<1>1. CASE MoveTree
  <2>1. /\ pc = "move" /\ Busy /\ Forward
        /\ trees' = [trees EXCEPT ![First(todo)] = Renamed(@, Src, Dst)]
    BY <1>1 DEF MoveTree, Busy, Forward, Src, Dst
  <2>2. /\ Src \in Spots /\ Dst \in Spots /\ trees \in [Trees -> Tree]
        /\ \A u \in Trees : Old(u) \in Tree /\ trees[u] \in Tree
    BY <1>0, <2>1, RunTypes DEF TInv, TypeOK
  <2>3. First(todo) \in todo /\ First(todo) \notin moved /\ failures = {} /\ First(todo) \in Trees
    BY <1>0, <2>1 DEF ForwardInv, First, TInv, TypeOK, Trees
  <2>4. trees[First(todo)] = Old(First(todo))
    BY <1>0, <2>1, <2>3 DEF TreesInv, There
  <2>5. Src = Dst \/ Old(First(todo))[Dst] = None
    BY <1>0, <2>1, <2>3 DEF FreeInv, Aliased, Old, Trees
  <2>. QED  BY <2>1, <2>2, <2>3, <2>4, <2>5, RenamedAt
<1>2. CASE RollBackTree
  <2>1. /\ pc = "rollback" /\ Busy /\ moved # {}
        /\ trees' = [trees EXCEPT ![Last(moved)] = Renamed(@, Dst, Src)]
    BY <1>2 DEF RollBackTree, Busy, Src, Dst
  <2>2. /\ Src \in Spots /\ Dst \in Spots /\ trees \in [Trees -> Tree]
        /\ \A u \in Trees : Old(u) \in Tree /\ trees[u] \in Tree
    BY <1>0, <2>1, RunTypes DEF TInv, TypeOK
  <2>3. Last(moved) \in moved /\ Last(moved) \in Trees
    BY <1>0, <2>1 DEF Last, TInv, TypeOK, Trees
  <2>4. trees[Last(moved)] = Renamed(Old(Last(moved)), Src, Dst)
    BY <1>0, <2>1, <2>3 DEF TreesInv, There
  <2>5. Src = Dst \/ trees[Last(moved)][Src] = None
    BY <2>2, <2>3, <2>4, RenamedAt
  <2>. QED  BY <2>1, <2>2, <2>3, <2>5, RenamedAt
<1>3. CASE Cleanup
  BY <1>0, <1>3 DEF Cleanup, TInv, TypeOK, Tree
<1>4. CASE trees' = trees
  BY <1>4
<1>. QED
  BY <1>1, <1>2, <1>3, <1>4
     DEF Next, CallStep, Call, Refuse, MoveFails, RebaseTree, RebaseFails, Persist,
         ReadMetaFails, SetSettingsFails, RollBackFails, RebaseBack, RebaseBackFails,
         RolledBack, Crash, CreateNote, WriteComments, DuplicateNote, vault

\* No call, and no step of a rollback, moves a tree over another.
THEOREM NothingOverwritten == Spec => NeverOverwritten
<1>1. Inv /\ [Next]_vars =>
         [ (pc # "idle" \/ pc' # "idle") /\ ~Aliased =>
             \A t \in Trees, s \in Spots :
                trees[t][s] # None => trees'[t][s] \in {trees[t][s], None} ]_vars
  BY StepOverwritesNothing
<1>. QED  BY <1>1, InvCorrect, PTL DEF Spec, NeverOverwritten

-----------------------------------------------------------------------------
\* What a move takes along: the text of a link

\* With nothing to move from the old path, nothing is at the new one.
VacantInv == Busy /\ Old(Content)[Src] = None => Old(Content)[Dst] = None

\* What MovedLinkKeepsTarget says of the link the call has moved.
TargetKept ==
    trees[Content][Dst] \in Links =>
       LET l == trees[Content][Dst]
       IN DirOf[Dst] + text[l] = DirOf[Src] + before.text[l]

\* The content has still to move, or its link to be rebased.
Verbatim == Content \in todo \/ (pc = "rebase" /\ cur = Content)

\* The text of a link is the old one until it is rebased, and right from then on.
LinkInv ==
    /\ Forward /\ Verbatim => text = before.text
    /\ Forward /\ ~Verbatim => TargetKept
    /\ pc = "rebase" => Content \notin todo
    /\ pc = "cleanup" \/ result = "ok" => TargetKept

FollowInv == Inv /\ VacantInv /\ LinkInv

\* Nothing can be moved from a path where there is nothing onto one where there is.
LEMMA NothingToCollide ==
    ASSUME NEW s, NEW d, ~Collides(s, d), trees[Content][s] = None
    PROVE  trees[Content][d] = None
<1>1. FileAt(s) = None
  BY ConstantsOK DEF FileAt
<1>. QED  BY <1>1 DEF Collides, SameFile, Trees

\* What is at the destination once every move has been made.
LEMMA MovedContent ==
    ASSUME TInv, pc = "persist", ForwardInv, TreesInv, VacantInv
    PROVE  trees[Content][Dst] = Old(Content)[Src]
<1>1. /\ Src \in Spots /\ Dst \in Spots /\ Old(Content) \in Tree /\ Content \in Trees
  BY RunTypes
<1>2. There(Content) <=> Old(Content)[Src] # None
  BY <1>1 DEF ForwardInv, Forward, There
<1>3. CASE There(Content)
  BY <1>1, <1>3, RenamedAt DEF TreesInv, Busy
<1>4. CASE ~There(Content)
  BY <1>1, <1>2, <1>4 DEF TreesInv, Busy, Forward, VacantInv
<1>. QED  BY <1>3, <1>4

LEMMA InitFollowInv == Init => FollowInv
<1> SUFFICES ASSUME Init PROVE FollowInv
  OBVIOUS
<1>1. pc = "idle" /\ result = "none"
  BY DEF Init
<1>. QED
  BY <1>1, InitInv DEF FollowInv, VacantInv, LinkInv, Forward, Busy

\* A call that has returned any other answer has nothing to keep.
LEMMA OtherAnswer ==
    ASSUME pc' = "idle", result' # "ok"
    PROVE  VacantInv' /\ LinkInv'
BY DEF VacantInv, LinkInv, Forward, Busy

\* Nor has one on its way back.
LEMMA OnTheWayBack ==
    ASSUME VacantInv, Busy, UNCHANGED <<before, op>>,
           pc' \in {"rollback", "unrebase"}, result' = "none"
    PROVE  VacantInv' /\ LinkInv'
BY DEF VacantInv, LinkInv, Forward, Busy, Old, Src, Dst

LEMMA NextFollowInv == FollowInv /\ [Next]_vars => FollowInv'
<1> SUFFICES ASSUME FollowInv, [Next]_vars PROVE FollowInv'
  OBVIOUS
<1>0. /\ Inv /\ Inv' /\ TInv /\ TInv' /\ ForwardInv /\ TreesInv /\ VacantInv /\ LinkInv
  BY NextInv DEF FollowInv, Inv
<1>a. Content \in Trees /\ Comments \in Trees /\ Content # Comments
      /\ Trees = {Content, Comments}
  BY DEF Trees, Content, Comments
<1>. USE <1>0, <1>a
<1>b. SUFFICES VacantInv' /\ LinkInv'
  BY DEF FollowInv
<1>1. ASSUME NEW kind \in Kinds, NEW s \in Places, NEW d \in Spots,
             Call(kind, s, d)
      PROVE  VacantInv' /\ LinkInv'
  <2>1. /\ pc' \in {"move", "persist"} /\ result' = "none"
        /\ todo' = Present(s) /\ Src' = s /\ Dst' = d /\ ~Collides(s, d)
        /\ before' = Snapshot /\ UNCHANGED <<trees, text, settings>>
    BY <1>1 DEF Call, Src, Dst, vault
  <2>2. before'.trees = trees /\ before'.text = text /\ before'.settings = settings
    BY <2>1 DEF Snapshot
  <2>3. trees[Content][s] = None => trees[Content][d] = None
    BY <2>1, NothingToCollide
  <2>4. Content \notin todo' => TargetKept'
    BY <2>1, <2>3, ConstantsOK DEF Present, TargetKept
  <2>5. VacantInv'
    BY <2>1, <2>2, <2>3 DEF VacantInv, Old
  <2>6. LinkInv'
    BY <2>1, <2>2, <2>4 DEF LinkInv, Verbatim
  <2>. QED  BY <2>5, <2>6
<1>2. ASSUME NEW kind \in Kinds, NEW s \in Places, NEW d \in Spots,
             Refuse(kind, s, d)
      PROVE  VacantInv' /\ LinkInv'
  BY <1>2, OtherAnswer DEF Refuse, Return
<1>3. CASE MoveTree
  <2>1. /\ pc = "move" /\ pc' = "rebase" /\ Busy /\ Busy' /\ Forward /\ Forward'
        /\ result' = "none" /\ todo' = todo \ {First(todo)} /\ cur' = First(todo)
        /\ UNCHANGED <<before, op, text, settings>>
    BY <1>3 DEF MoveTree, Busy, Forward, TInv, Called
  <2>2. VacantInv'
    BY <2>1 DEF VacantInv, Old, Src, Dst
  <2>3. CASE Content \in todo
    <3>1. Verbatim /\ Verbatim' /\ Content \notin todo'
      BY <2>1, <2>3 DEF Verbatim, First
    <3>2. text' = before.text'
      BY <2>1, <3>1 DEF LinkInv
    <3>. QED  BY <2>1, <2>2, <3>1, <3>2 DEF LinkInv
  <2>4. CASE Content \notin todo
    <3>1. cur' = Comments /\ ~Verbatim /\ ~Verbatim' /\ Content \notin todo'
      BY <2>1, <2>4 DEF Verbatim, First
    <3>2. trees'[Content] = trees[Content]
      BY <1>3, <2>4 DEF MoveTree, First, TInv, TypeOK
    <3>3. TargetKept'
      BY <2>1, <3>1, <3>2 DEF LinkInv, TargetKept, Src, Dst
    <3>. QED  BY <2>1, <2>2, <3>1, <3>3 DEF LinkInv
  <2>. QED  BY <2>2, <2>3, <2>4
<1>4. CASE MoveFails \/ RebaseFails \/ ReadMetaFails \/ SetSettingsFails
  BY <1>4, OnTheWayBack DEF MoveFails, RebaseFails, ReadMetaFails, SetSettingsFails,
                            Busy, TInv, Called
<1>5. CASE RebaseTree
  <2>1. /\ pc = "rebase" /\ pc' \in {"move", "persist"} /\ Busy /\ Forward /\ Forward'
        /\ result' = "none" /\ RebaseLink(cur, Src, Dst) /\ Content \notin todo'
        /\ UNCHANGED <<trees, before, op, settings, todo, cur>>
    BY <1>5 DEF RebaseTree, Busy, Forward, TInv, Called, LinkInv, Src, Dst
  <2>2. VacantInv'
    BY <2>1 DEF VacantInv, Old, Src, Dst
  <2>3. CASE cur = Content
    <3>1. text = before.text
      BY <2>1, <2>3 DEF LinkInv, Verbatim
    <3>2. ASSUME trees[Content][Dst] \in Links
          PROVE  text'[trees[Content][Dst]] =
                    text[trees[Content][Dst]] + DirOf[Src] - DirOf[Dst]
      BY <2>1, <2>3, <3>2 DEF RebaseLink, Rebased, TInv, TypeOK
    <3>3. DirOf[Src] \in Int /\ DirOf[Dst] \in Int
      BY <2>1, RunTypes, ConstantsOK
    <3>4. \A l \in Links : before.text[l] \in Int
      BY DEF TInv, TypeOK
    <3>5. TargetKept'
      BY <2>1, <3>1, <3>2, <3>3, <3>4 DEF TargetKept, Src, Dst
    <3>. QED  BY <2>1, <2>2, <3>5 DEF LinkInv, Verbatim
  <2>4. CASE cur # Content
    <3>1. text' = text /\ ~Verbatim /\ ~Verbatim'
      BY <2>1, <2>4 DEF RebaseLink, Verbatim
    <3>2. TargetKept'
      BY <2>1, <3>1 DEF LinkInv, TargetKept, Src, Dst
    <3>. QED  BY <2>1, <2>2, <3>1, <3>2 DEF LinkInv
  <2>. QED  BY <2>3, <2>4
<1>6. CASE Persist
  <2>1. /\ pc = "persist" /\ pc' \in {"idle", "cleanup"} /\ Forward /\ result = "none"
        /\ UNCHANGED <<trees, text, before, op>>
        /\ pc' = "cleanup" => Deleting(op.kind) /\ result' = "none"
    BY <1>6 DEF Persist, Return, Forward, TInv, Called
  <2>2. ~Verbatim
    BY <2>1 DEF ForwardInv, Verbatim
  <2>3. TargetKept'
    BY <2>1, <2>2 DEF LinkInv, TargetKept, Src, Dst
  <2>4. VacantInv' /\ LinkInv'
    BY <2>1, <2>3 DEF VacantInv, LinkInv, Forward, Busy
  <2>. QED  BY <2>4
<1>7. CASE RollBackTree \/ RollBackFails \/ RebaseBack \/ RebaseBackFails
  BY <1>7, OnTheWayBack DEF RollBackTree, RollBackFails, RebaseBack, RebaseBackFails,
                            Busy, TInv, Called
<1>8. CASE RolledBack \/ Crash
  BY <1>8, OtherAnswer DEF RolledBack, Crash, Return
<1>9. CASE Cleanup
  <2>1. /\ pc = "cleanup" /\ pc' = "idle"
        /\ UNCHANGED <<text, op, before>>
        /\ \/ trees' = [t \in Trees |-> [trees[t] EXCEPT ![op.dst] = None]]
           \/ UNCHANGED trees
    BY <1>9 DEF Cleanup, Return
  <2>2. TargetKept
    BY <2>1 DEF LinkInv
  <2>3. trees'[Content][Dst] \in {None, trees[Content][Dst]}
    BY <2>1, RunTypes DEF Tree, Dst
  <2>4. TargetKept'
    BY <2>1, <2>2, <2>3, ConstantsOK DEF TargetKept, Src, Dst
  <2>. QED  BY <2>1, <2>4 DEF VacantInv, LinkInv, Forward, Busy
<1>10. ASSUME NEW i \in Items, NEW p \in Places,
              CreateNote(i, p) \/ WriteComments(i, p)
                \/ \E s \in Places : DuplicateNote(i, s, p)
       PROVE  VacantInv' /\ LinkInv'
  <2>1. pc' = "idle" /\ result' = "none"
    BY <1>10 DEF CreateNote, WriteComments, DuplicateNote, Forget
  <2>. QED  BY <2>1, OtherAnswer
<1>11. CASE UNCHANGED vars
  BY <1>11 DEF vars, VacantInv, LinkInv, TargetKept,
               Verbatim, Forward, Busy, Old, Src, Dst
<1>. QED
  BY <1>1, <1>2, <1>3, <1>4, <1>5, <1>6, <1>7, <1>8, <1>9, <1>10, <1>11
     DEF Next, CallStep

LEMMA FollowInvCorrect == Spec => []FollowInv
BY InitFollowInv, NextFollowInv, PTL DEF Spec

\* A link that a call has moved names the file it named before, whatever the
\* directories and through any faults.
THEOREM LinkKeepsTarget == Spec => []MovedLinkKeepsTarget
<1>1. FollowInv => MovedLinkKeepsTarget
  <2> SUFFICES ASSUME FollowInv, pc = "persist" \/ result = "ok"
               PROVE  TargetKept
    BY DEF MovedLinkKeepsTarget, TargetKept
  <2>1. CASE pc = "persist"
    BY <2>1 DEF FollowInv, Inv, ForwardInv, LinkInv, Forward, Verbatim
  <2>2. CASE result = "ok"
    BY <2>2 DEF FollowInv, LinkInv
  <2>. QED  BY <2>1, <2>2
<1>. QED  BY <1>1, FollowInvCorrect, PTL

-----------------------------------------------------------------------------
\* Refinement

\* No item is at two paths.
OnePath(f) == \A p, q \in Spots : f[p] # None /\ f[p] = f[q] => p = q

\* One end of the call is a link, so that the other may be the same file.
Linked == Old(Content)[Src] \in Links \/ Old(Content)[Dst] \in Links

StoreInv ==
    /\ FollowInv
    /\ OnePath(trees[Content])
    /\ Busy => /\ OnePath(Old(Content))
               /\ \A t \in Trees : Src = Dst \/ Old(t)[Dst] = None \/ (t = Content /\ Linked)
    /\ pc # "idle" /\ Deleting(op.kind) => Dst \in Temps
    /\ pc = "cleanup" => Deleting(op.kind)

\* A rename puts nothing at a second path.
LEMMA RenamedOnePath ==
    ASSUME NEW f \in Tree, NEW s \in Spots, NEW d \in Spots, OnePath(f)
    PROVE  OnePath(Renamed(f, s, d))
BY RenamedAt DEF OnePath

\* A destination that does not collide is free or the source, or one is a link.
LEMMA FreeDestination ==
    ASSUME TInv, OnePath(trees[Content]), NEW s \in Spots, NEW d \in Spots,
           ~Collides(s, d), NEW t \in Trees
    PROVE  \/ s = d
           \/ trees[t][d] = None
           \/ t = Content /\ (trees[Content][s] \in Links \/ trees[Content][d] \in Links)
<1>1. \A p : trees[Content][p] \notin Links => FileAt(p) = trees[Content][p]
  BY DEF FileAt
<1>2. trees[t][d] = None \/ SameFile(t, s, d)
  BY DEF Collides
<1>. QED  BY <1>1, <1>2 DEF SameFile, OnePath

LEMMA InitStoreInv == Init => StoreInv
<1> SUFFICES ASSUME Init PROVE StoreInv
  OBVIOUS
<1>1. OnePath(trees[Content])
  <2>1. PICK c \in [Spots -> Items \union {None}], commented \in SUBSET Places :
          /\ \A p, q \in Spots : c[p] = c[q] /\ p # q => c[p] = None
          /\ trees = [t \in Trees |->
                IF t = Content THEN c
                ELSE [s \in Spots |-> IF s \in commented THEN c[s] ELSE None]]
    BY DEF Init
  <2>. QED  BY <2>1 DEF OnePath, Trees
<1>2. pc = "idle"
  BY DEF Init
<1>. QED  BY <1>1, <1>2, InitFollowInv DEF StoreInv, Busy

LEMMA NextStoreInv == StoreInv /\ [Next]_vars => StoreInv'
<1> SUFFICES ASSUME StoreInv, [Next]_vars PROVE StoreInv'
  OBVIOUS
<1>0. Inv /\ Inv' /\ TInv /\ TInv'
  BY NextInv DEF StoreInv, FollowInv, Inv
<1>a. Content \in Trees /\ Comments \in Trees /\ Content # Comments
  BY DEF Trees, Content, Comments
<1>b. FollowInv'
  BY NextFollowInv DEF StoreInv
<1>. USE <1>0, <1>a, <1>b
<1>1. ASSUME NEW kind \in Kinds, NEW s \in Places, NEW d \in Spots,
             Call(kind, s, d)
      PROVE  StoreInv'
  <2>1. /\ pc = "idle" /\ pc' \in {"move", "persist"} /\ Src' = s /\ Dst' = d
        /\ op'.kind = kind /\ before'.trees = trees /\ trees' = trees
        /\ ~Collides(s, d) /\ ValidCall(kind, s, d)
    BY <1>1 DEF Call, Src, Dst, Snapshot, vault
  <2>2. \A t \in Trees :
           \/ s = d
           \/ trees[t][d] = None
           \/ t = Content /\ (trees[Content][s] \in Links \/ trees[Content][d] \in Links)
    BY <2>1, FreeDestination DEF StoreInv, Spots
  <2>3. Deleting(kind) => d \in Temps
    BY <2>1 DEF ValidCall, Fresh
  <2>4. \A t \in Trees : Src' = Dst' \/ Old(t)'[Dst'] = None \/ (t = Content /\ Linked')
    BY <2>1, <2>2 DEF Linked, Old
  <2>5. OnePath(trees'[Content]) /\ OnePath(Old(Content)')
    BY <2>1 DEF StoreInv, Old
  <2>. QED  BY <2>1, <2>3, <2>4, <2>5 DEF StoreInv
<1>2. ASSUME NEW kind \in Kinds, NEW s \in Places, NEW d \in Spots,
             Refuse(kind, s, d)
      PROVE  StoreInv'
  <2>1. pc' = "idle" /\ trees' = trees
    BY <1>2 DEF Refuse, Return, vault
  <2>. QED  BY <2>1 DEF StoreInv, Busy
<1>3. CASE MoveTree \/ RollBackTree
  <2>1. PICK t \in Trees, s \in Spots, d \in Spots :
           trees' = [trees EXCEPT ![t] = Renamed(@, s, d)]
    BY <1>3, RunTypes DEF MoveTree, RollBackTree, First, Last, Src, Dst
  <2>2. OnePath(trees'[Content])
    BY <2>1, RenamedOnePath DEF StoreInv, TInv, TypeOK
  <2>3. Busy /\ Busy' /\ pc' # "cleanup" /\ UNCHANGED <<before, op>>
    BY <1>3 DEF MoveTree, RollBackTree, Busy
  <2>. QED  BY <2>2, <2>3 DEF StoreInv, Linked, Old, Src, Dst, Busy
<1>4. CASE \/ MoveFails \/ RebaseTree \/ RebaseFails \/ ReadMetaFails
           \/ SetSettingsFails \/ RollBackFails \/ RebaseBack \/ RebaseBackFails
  <2>1. Busy /\ Busy' /\ UNCHANGED <<trees, before, op>> /\ pc' # "cleanup"
    BY <1>4 DEF MoveFails, RebaseTree, RebaseFails, ReadMetaFails, SetSettingsFails,
                RollBackFails, RebaseBack, RebaseBackFails, Busy, vault
  <2>. QED  BY <2>1 DEF StoreInv, Linked, Old, Src, Dst, Busy
<1>5. CASE Persist
  <2>1. /\ pc = "persist" /\ UNCHANGED <<trees, op>> /\ pc' \in {"idle", "cleanup"}
        /\ pc' = "cleanup" => Deleting(op.kind)
    BY <1>5 DEF Persist, Return
  <2>. QED  BY <2>1 DEF StoreInv, Busy, Dst
<1>6. CASE RolledBack \/ Crash
  <2>1. pc' = "idle" /\ trees' = trees
    BY <1>6 DEF RolledBack, Crash, Return, vault
  <2>. QED  BY <2>1 DEF StoreInv, Busy
<1>7. CASE Cleanup
  <2>1. /\ pc' = "idle"
        /\ \/ trees' = [t \in Trees |-> [trees[t] EXCEPT ![op.dst] = None]]
           \/ trees' = trees
    BY <1>7 DEF Cleanup, Return
  <2>2. OnePath(trees'[Content])
    BY <2>1 DEF StoreInv, OnePath, TInv, TypeOK, Tree
  <2>. QED  BY <2>1, <2>2 DEF StoreInv, Busy
<1>8. ASSUME NEW i \in Items, NEW p \in Places,
             CreateNote(i, p) \/ WriteComments(i, p) \/ \E s \in Places : DuplicateNote(i, s, p)
      PROVE  StoreInv'
  <2>1. pc' = "idle"
    BY <1>8 DEF CreateNote, WriteComments, DuplicateNote
  <2>2. OnePath(trees'[Content])
    <3>1. CASE CreateNote(i, p)
      <4>1. trees'[Content] = [trees[Content] EXCEPT ![p] = i]
        BY <3>1 DEF CreateNote, TInv, TypeOK
      <4>2. \A q \in Spots : trees[Content][q] # i
        BY <3>1 DEF CreateNote
      <4>. QED  BY <4>1, <4>2 DEF StoreInv, OnePath, TInv, TypeOK, Tree
    <3>2. CASE WriteComments(i, p)
      <4>1. PICK c \in {i, None} : trees' = [trees EXCEPT ![Comments][p] = c]
        BY <3>2 DEF WriteComments
      <4>. QED  BY <4>1 DEF StoreInv, TInv, TypeOK
    <3>3. ASSUME NEW s \in Places, DuplicateNote(i, s, p) PROVE OnePath(trees'[Content])
      <4>1. trees'[Content] = [trees[Content] EXCEPT ![p] = i]
        BY <3>3 DEF DuplicateNote, TInv, TypeOK
      <4>2. \A q \in Spots : trees[Content][q] # i
        BY <3>3 DEF DuplicateNote
      <4>. QED  BY <4>1, <4>2 DEF StoreInv, OnePath, TInv, TypeOK, Tree
    <3>. QED  BY <1>8, <3>1, <3>2, <3>3
  <2>. QED  BY <2>1, <2>2 DEF StoreInv, Busy
<1>9. CASE UNCHANGED vars
  BY <1>9 DEF vars, StoreInv, Linked, Busy, Old, Src, Dst
<1>. QED
  BY <1>1, <1>2, <1>3, <1>4, <1>5, <1>6, <1>7, <1>8, <1>9 DEF Next, CallStep

\* Where there is nothing to rename, and nothing in the way, renaming is a stutter.
LEMMA RenamedNothing ==
    ASSUME NEW f \in Tree, NEW s \in Spots, NEW d \in Spots, f[s] = None,
           s = d \/ f[d] = None
    PROVE  Renamed(f, s, d) = f
BY DEF Renamed, Tree

\* A rename and the rename back undo each other, but for a link's other end.
LEMMA UndoneOrLost ==
    ASSUME StoreInv, Busy, Src \in Spots, Dst \in Spots, Old(Content) \in Tree,
           Src = Dst \/ Old(Content)[Dst] = None \/ Linked
    PROVE  LET back == Renamed(Renamed(Old(Content), Src, Dst), Dst, Src)
           IN  \/ back = Old(Content)
               \/ /\ Src # Dst /\ Linked /\ Old(Content)[Dst] # None
                  /\ back = [Old(Content) EXCEPT ![Dst] = None]
BY DEF Renamed, Tree

LEMMA InitRefines == Init => Store!Init
<1> SUFFICES ASSUME Init PROVE Store!Init
  OBVIOUS
<1>1. PICK c \in [Spots -> Items \union {None}], commented \in SUBSET Places :
         trees = [t \in Trees |->
              IF t = Content THEN c
              ELSE [s \in Spots |-> IF s \in commented THEN c[s] ELSE None]]
  BY DEF Init
<1>2. /\ trees[Content] = c
      /\ trees[Comments] = [s \in Spots |-> IF s \in commented THEN c[s] ELSE None]
  BY <1>1 DEF Trees, Content, Comments
<1>3. ~Busy /\ result = "none"
  BY DEF Init, Busy
<1>. QED
  BY <1>2, <1>3 DEF Store!Init, Store!Spots, Spots

LEMMA NextRefines == StoreInv /\ StoreInv' /\ [Next]_vars => [Store!Next]_(Store!store)
<1> SUFFICES ASSUME StoreInv, StoreInv', [Next]_vars
             PROVE  Store!Next \/ UNCHANGED Store!store
  OBVIOUS
<1>0. /\ Inv /\ Inv' /\ TInv /\ TInv' /\ ForwardInv /\ TreesInv /\ FreeInv /\ VacantInv
      /\ Content \in Trees /\ Comments \in Trees /\ Content # Comments
      /\ trees \in [Trees -> Tree]
  BY DEF StoreInv, FollowInv, Inv, Trees, Content, Comments, TInv, TypeOK
<1>. USE <1>0
<1>. DEFINE content == IF Busy THEN before.trees[Content] ELSE trees[Content]
            comments == IF Busy THEN before.trees[Comments] ELSE trees[Comments]
\* Calls, refusals and the steps of a call
<1>1. ASSUME UNCHANGED <<content, comments>>,
             result' \in {"none", "refused", "error", "ok", "uncertain", "crash"}
      PROVE  Store!NoEffect
  BY <1>1 DEF Store!NoEffect
<1>2. ASSUME NEW kind \in Kinds, NEW s \in Places, NEW d \in Spots,
             Call(kind, s, d) \/ Refuse(kind, s, d)
      PROVE  Store!NoEffect
  <2>1. /\ ~Busy /\ trees' = trees /\ result' \in {"none", "refused"}
        /\ Busy' => before'.trees = trees
    BY <1>2 DEF Call, Refuse, Return, Busy, Snapshot, vault
  <2>. QED  BY <2>1, <1>1
<1>3. CASE \/ MoveTree \/ MoveFails \/ RebaseTree \/ RebaseFails \/ ReadMetaFails
           \/ SetSettingsFails \/ RollBackTree \/ RollBackFails \/ RebaseBack
           \/ RebaseBackFails
  <2>1. Busy /\ Busy' /\ before' = before /\ result' = result /\ result = "none"
    BY <1>3 DEF MoveTree, MoveFails, RebaseTree, RebaseFails, ReadMetaFails,
                SetSettingsFails, RollBackTree, RollBackFails, RebaseBack,
                RebaseBackFails, Busy, TInv, Called
  <2>. QED  BY <2>1, <1>1 DEF Store!Next
\* The step that takes effect
<1>4. CASE Persist
  <2>1. /\ pc = "persist" /\ Busy /\ ~Busy' /\ trees' = trees /\ result' \in {"ok", "none"}
    BY <1>4 DEF Persist, Return, Busy, TInv, Called
  <2>2. /\ Src \in Places /\ Src \in Spots /\ Dst \in Spots
        /\ \A t \in Trees : Old(t) \in Tree
    BY <2>1, RunTypes
  <2>3. \A t \in Trees : Src = Dst \/ Old(t)[Dst] = None \/ (t = Content /\ Linked)
    BY <2>1 DEF StoreInv
  <2>4. ASSUME NEW t \in Trees PROVE trees[t] = Renamed(Old(t), Src, Dst)
    <3>1. There(t) <=> Old(t)[Src] # None
      BY <2>1 DEF ForwardInv, Forward, There
    <3>2. CASE There(t)
      BY <2>1, <3>2 DEF TreesInv
    <3>3. CASE ~There(t)
      <4>1. trees[t] = Old(t) /\ Old(t)[Src] = None
        BY <2>1, <3>1, <3>3 DEF TreesInv, Forward
      <4>2. t = Content \/ t = Comments
        BY DEF Trees
      <4>3. Src = Dst \/ Old(t)[Dst] = None
        BY <2>1, <4>1, <4>2 DEF FreeInv, VacantInv
      <4>. QED  BY <2>2, <4>1, <4>3, RenamedNothing
    <3>. QED  BY <3>2, <3>3
  <2>5. content = Old(Content) /\ comments = Old(Comments)
    BY <2>1 DEF Old
  <2>6. content' = Renamed(content, Src, Dst) /\ comments' = Renamed(comments, Src, Dst)
    BY <2>1, <2>4, <2>5
  <2>7. Store!Free(Src, Dst)
    BY <2>3, <2>5 DEF Store!Free, Store!Alias, Linked
  <2>8. Store!Relocate(Src, Dst)
    BY <2>1, <2>6, <2>7 DEF Store!Relocate, Store!Renamed, Renamed
  <2>. QED  BY <2>2, <2>8 DEF Store!Next, Store!Spots, Spots
\* The answers that promise nothing or less
<1>5. ASSUME Busy, ~Busy', trees' = trees, result' \in {"uncertain", "crash"}
      PROVE  Store!Next
  <2>1. /\ Src \in Places /\ Src \in Spots /\ Dst \in Spots
        /\ \A t \in Trees : Old(t) \in Tree
    BY <1>5, RunTypes DEF Busy
  <2>2. \A t \in Trees : Src = Dst \/ Old(t)[Dst] = None \/ (t = Content /\ Linked)
    BY <1>5 DEF StoreInv
  <2>3. content = Old(Content) /\ comments = Old(Comments)
    BY <1>5 DEF Old
  <2>4. trees[Comments] \in {comments, Renamed(comments, Src, Dst)}
    BY <1>5, <2>1, <2>2, <2>3, RenamedBack DEF TreesInv
  <2>5. trees[Content] \in Store!Undone(Src, Dst) \union {Renamed(content, Src, Dst)}
    <3>1. trees[Content] \in {content, Renamed(content, Src, Dst)}
             \/ trees[Content] = Renamed(Renamed(content, Src, Dst), Dst, Src)
      BY <1>5, <2>3 DEF TreesInv
    <3>. QED  BY <2>1, <2>2, <2>3, <3>1, UndoneOrLost DEF Store!Undone, Store!Alias, Linked
  <2>6. Store!Free(Src, Dst)
    BY <2>2, <2>3 DEF Store!Free, Store!Alias, Linked
  <2>7. Store!Part(Src, Dst)
    BY <1>5, <2>4, <2>5, <2>6 DEF Store!Part, Store!Renamed, Renamed
  <2>. QED  BY <2>1, <2>7 DEF Store!Next, Store!Spots, Spots
<1>6. CASE RolledBack
  <2>1. /\ pc = "rollback" /\ Busy /\ ~Busy' /\ moved = {} /\ trees' = trees
        /\ result' = IF failures = {} THEN "error" ELSE "uncertain"
    BY <1>6 DEF RolledBack, Return, Busy, vault
  <2>2. CASE failures = {}
    <3>1. /\ Src \in Places /\ Src \in Spots /\ Dst \in Spots
          /\ \A t \in Trees : Old(t) \in Tree
      BY <2>1, RunTypes DEF Busy
    <3>2. \A t \in Trees : Src = Dst \/ Old(t)[Dst] = None \/ (t = Content /\ Linked)
      BY <2>1 DEF StoreInv
    <3>3. content = Old(Content) /\ comments = Old(Comments)
      BY <2>1 DEF Old
    <3>4. \A t \in Trees : \/ trees[t] = Old(t)
                           \/ trees[t] = Renamed(Renamed(Old(t), Src, Dst), Dst, Src)
      BY <2>1, <2>2 DEF TreesInv, There
    <3>5. trees[Comments] = comments
      BY <3>1, <3>2, <3>3, <3>4, RenamedBack
    <3>6. trees[Content] \in Store!Undone(Src, Dst)
      BY <3>1, <3>2, <3>3, <3>4, UndoneOrLost DEF Store!Undone, Store!Alias, Linked
    <3>7. Store!Free(Src, Dst)
      BY <3>2, <3>3 DEF Store!Free, Store!Alias, Linked
    <3>8. Store!Lose(Src, Dst)
      BY <2>1, <2>2, <3>5, <3>6, <3>7 DEF Store!Lose
    <3>. QED  BY <3>1, <3>8 DEF Store!Next, Store!Spots, Spots
  <2>3. CASE failures # {}
    BY <2>1, <2>3, <1>5
  <2>. QED  BY <2>2, <2>3
<1>7. CASE Crash
  <2>1. ~Busy' /\ trees' = trees /\ result' = "crash"
    BY <1>7 DEF Crash, Return, Busy, vault
  <2>2. CASE Busy
    BY <2>1, <2>2, <1>5
  <2>3. CASE ~Busy
    BY <2>1, <2>3, <1>1 DEF Store!Next
  <2>. QED  BY <2>2, <2>3
\* The temporary directory is removed, or stays
<1>8. CASE Cleanup
  <2>1. /\ pc = "cleanup" /\ ~Busy /\ ~Busy' /\ result' = "ok" /\ Dst \in Temps
        /\ \/ trees' = [t \in Trees |-> [trees[t] EXCEPT ![Dst] = None]]
           \/ trees' = trees
    BY <1>8 DEF Cleanup, Return, Busy, StoreInv, Dst
  <2>2. CASE trees' = trees
    BY <2>1, <2>2, <1>1 DEF Store!Next
  <2>3. CASE trees' = [t \in Trees |-> [trees[t] EXCEPT ![Dst] = None]]
    <3>1. Store!Discard(Dst)
      BY <2>1, <2>3 DEF Store!Discard
    <3>. QED  BY <2>1, <3>1 DEF Store!Next
  <2>. QED  BY <2>1, <2>2, <2>3
\* Other writes
<1>9. ASSUME NEW i \in Items \union {None}, NEW c \in Items \union {None}, NEW p \in Places,
             ~Busy, ~Busy', result' = "none", trees[Content][p] # None => i = trees[Content][p],
             trees'[Content] = [trees[Content] EXCEPT ![p] = i],
             trees'[Comments] = [trees[Comments] EXCEPT ![p] = c]
      PROVE  Store!Next
  <2>1. Store!Write(p)
    BY <1>9 DEF Store!Write
  <2>. QED  BY <2>1 DEF Store!Next
<1>10. ASSUME NEW i \in Items, NEW p \in Places, CreateNote(i, p)
       PROVE  Store!Next
  <2>1. ~Busy /\ ~Busy' /\ result' = "none" /\ trees[Content][p] = None
    BY <1>10 DEF CreateNote, Forget, Busy
  <2>2. trees' = [trees EXCEPT ![Content] = [@ EXCEPT ![p] = i]]
    BY <1>10 DEF CreateNote
  <2>3. /\ trees[Comments][p] \in Items \union {None}
        /\ trees[Comments] = [trees[Comments] EXCEPT ![p] = trees[Comments][p]]
    BY DEF Tree, Spots
  <2>. QED  BY <2>1, <2>2, <2>3, <1>9
<1>11. ASSUME NEW i \in Items, NEW p \in Places, WriteComments(i, p)
       PROVE  Store!Next
  <2>1. ~Busy /\ ~Busy' /\ result' = "none"
    BY <1>11 DEF WriteComments, Forget, Busy
  <2>2. PICK c \in {i, None} : trees' = [trees EXCEPT ![Comments] = [@ EXCEPT ![p] = c]]
    BY <1>11 DEF WriteComments
  <2>3. /\ trees[Content][p] \in Items \union {None}
        /\ trees[Content] = [trees[Content] EXCEPT ![p] = trees[Content][p]]
    BY DEF Tree, Spots
  <2>. QED  BY <2>1, <2>2, <2>3, <1>9
<1>12. ASSUME NEW i \in Items, NEW s \in Places, NEW p \in Places, DuplicateNote(i, s, p)
       PROVE  Store!Next
  <2>. DEFINE c == IF trees[Comments][s] = None THEN trees[Comments][p] ELSE i
  <2>1. ~Busy /\ ~Busy' /\ result' = "none" /\ trees[Content][p] = None
    BY <1>12 DEF DuplicateNote, Forget, Busy
  <2>2. trees' = [trees EXCEPT ![Content] = [@ EXCEPT ![p] = i],
                               ![Comments] = [@ EXCEPT ![p] = c]]
    BY <1>12 DEF DuplicateNote, Tree
  <2>3. c \in Items \union {None}
    BY DEF Tree, Spots
  <2>. QED  BY <2>1, <2>2, <2>3, <1>9
<1>13. CASE UNCHANGED vars
  BY <1>13 DEF vars, Store!store, Busy
<1>. QED
  BY <1>2, <1>3, <1>4, <1>6, <1>7, <1>8, <1>10, <1>11, <1>12, <1>13
     DEF Next, CallStep, Store!Next

\* Every relocation is all or nothing for a note and its comments, whatever fails in
\* it and wherever the process stops, but for what a call loses of two names of one
\* file.
THEOREM Refinement == Spec => AllOrNothing
<1>1. Init => Store!Init
  BY InitRefines
<1>2. StoreInv /\ StoreInv' /\ [Next]_vars => [Store!Next]_(Store!store)
  BY NextRefines
<1>3. Spec => []StoreInv
  BY InitStoreInv, NextStoreInv, PTL DEF Spec
<1>. QED  BY <1>1, <1>2, <1>3, PTL DEF Spec, AllOrNothing, Store!Spec

-----------------------------------------------------------------------------
\* The entries of vault.json

\* What EntriesWithFolder says, of these trees and settings and but for these folders.
Own(T, S, A) ==
    \A p, q \in Places : T[Content][p] \in Folders \ A => (S[q] = T[Content][p] <=> q = p)

\* Only a folder is taken for one, and what is deleted leaves the places.
KindInv ==
    Busy => /\ op.kind = "RenameFolder" => Old(Content)[Src] \in Folders /\ Dst \in Places
            /\ op.kind \in {"RenameNote", "MoveNote", "DeleteNote"} => Old(Content)[Src] \notin Folders
            /\ Deleting(op.kind) => Dst \in Temps

\* Until the call's last step the entries are where the folders were, and what it
\* writes is right of where they are then.
EntryInv ==
    /\ StoreInv
    /\ KindInv
    /\ Forward => settings = before.settings
    /\ ~torn => Own(IF Busy THEN before.trees ELSE trees, settings, astray)

LEMMA InitEntryInv == Init => EntryInv
<1> SUFFICES ASSUME Init PROVE EntryInv
  OBVIOUS
<1>1. /\ pc = "idle" /\ before = Snapshot /\ astray = {}
      /\ settings = [s \in Spots |-> IF trees[Content][s] \in Folders
                                     THEN trees[Content][s] ELSE None]
  BY DEF Init
<1>2. StoreInv
  BY InitStoreInv
<1>3. Own(trees, settings, astray)
  <2> SUFFICES ASSUME NEW p \in Places, NEW q \in Places, trees[Content][p] \in Folders
               PROVE  settings[q] = trees[Content][p] <=> q = p
    BY DEF Own
  <2>1. p \in Spots /\ q \in Spots /\ None \notin Folders
    BY ConstantsOK DEF Spots
  <2>. QED  BY <1>1, <1>2, <2>1 DEF StoreInv, OnePath
<1>. QED  BY <1>1, <1>2, <1>3 DEF EntryInv, KindInv, Forward, Busy

\* The settings after the last step of a call that took the content along.
LEMMA OwnAfter ==
    ASSUME EntryInv, TInv', pc = "persist", ~torn, trees' = trees,
           NEW f \in SettingsAfter(op, settings), NEW A, astray \subseteq A,
           op.kind = "RenameFolder" /\ settings[Dst] \notin {None, settings[Src]} =>
              Strays \subseteq A
    PROVE  Own(trees, f, A)
<1>0. /\ TInv /\ TreesInv /\ ForwardInv /\ VacantInv
      /\ Busy /\ Forward /\ Content \in Trees
      /\ settings \in Tree /\ OnePath(Old(Content))
  BY DEF EntryInv, StoreInv, FollowInv, Inv, Busy, Forward, Trees, TInv, TypeOK
<1>1. Src \in Spots /\ Dst \in Spots /\ Src \in Places /\ Old(Content) \in Tree
  BY <1>0, RunTypes
<1>2. \A p, q \in Places :
         Old(Content)[p] \in Folders \ astray => (settings[q] = Old(Content)[p] <=> q = p)
  BY <1>0 DEF EntryInv, Own, Old
<1>3. \A p \in Spots : trees[Content][p] = IF Old(Content)[Src] = None THEN Old(Content)[p]
                                           ELSE Renamed(Old(Content), Src, Dst)[p]
  <2>1. failures = {} /\ (Content \in moved <=> Old(Content)[Src] # None)
    BY <1>0 DEF ForwardInv
  <2>2. IF Content \in moved THEN trees[Content] = Renamed(Old(Content), Src, Dst)
                              ELSE trees[Content] = Old(Content)
    BY <1>0, <2>1 DEF TreesInv, There
  <2>. QED  BY <2>1, <2>2
<1>4. \A p \in Places : p \in Spots /\ p \notin Temps
  BY ConstantsOK DEF Spots
<1>5. None \notin Folders /\ (Deleting(op.kind) => Dst \in Temps)
  BY <1>0, ConstantsOK DEF EntryInv, KindInv
<1> SUFFICES ASSUME NEW p \in Places, NEW q \in Places, trees[Content][p] \in Folders \ A
             PROVE  f[q] = trees[Content][p] <=> q = p
  BY DEF Own
<1> DEFINE i == trees[Content][p]
           g == Old(Content)[Src]
<1>6. \A r, v \in Places : i = Old(Content)[r] => (settings[v] = i <=> v = r)
  <2>1. i \in Folders \ astray
    OBVIOUS
  <2>. QED  BY <1>2, <2>1
<1>7. CASE op.kind = "RenameFolder"
  <2>1. g \in Folders /\ Dst \in Places /\ g # None
    BY <1>0, <1>5, <1>7 DEF EntryInv, KindInv
  <2>2. IF settings[Src] = None THEN f = settings
        ELSE \E e \in {settings[Src], settings[Dst]} \ {None} :
                f = [settings EXCEPT ![Src] = None, ![Dst] = e]
    BY <1>7 DEF SettingsAfter, Src, Dst
  <2>3. i = IF p = Dst THEN g ELSE IF p = Src THEN None ELSE Old(Content)[p]
    BY <1>1, <1>3, <1>4, <2>1 DEF Renamed, Tree
  <2>4. CASE p = Dst
    <3>1. i = g /\ settings[Src] = g
      BY <1>1, <1>6, <2>3, <2>4
    <3>2. settings[Dst] \in {None, g}
      BY <1>7, <2>1, <3>1 DEF Strays, Old, Src
    <3>3. f = [settings EXCEPT ![Src] = None, ![Dst] = g]
      BY <2>1, <2>2, <3>1, <3>2
    <3>. QED  BY <1>0, <1>1, <1>4, <1>6, <2>1, <2>4, <3>1, <3>3 DEF Tree
  <2>5. CASE p # Dst
    <3>1. p # Src /\ i = Old(Content)[p] /\ settings[Src] # i /\ settings[Dst] # i
      BY <1>1, <1>5, <1>6, <2>1, <2>3, <2>5
    <3>2. f[Src] # i \/ f = settings
      BY <1>0, <1>1, <1>5, <2>2, <3>1 DEF Tree
    <3>3. f[Dst] # i
      BY <1>0, <1>1, <2>2, <3>1 DEF Tree
    <3>4. q \notin {Src, Dst} => f[q] = settings[q]
      BY <1>0, <1>1, <1>4, <2>2 DEF Tree
    <3>. QED  BY <1>6, <2>5, <3>1, <3>2, <3>3, <3>4
  <2>. QED  BY <2>4, <2>5
<1>8. CASE op.kind # "RenameFolder"
  <2>1. p # Dst \/ i = Old(Content)[p]
    <3>1. CASE Deleting(op.kind)
      BY <1>4, <1>5, <3>1
    <3>2. CASE ~Deleting(op.kind)
      <4>1. op.kind \in {"RenameNote", "MoveNote"}
        BY <1>0, <1>8, <3>2 DEF TInv, Called, TypeOK, Busy, Kinds, Deleting
      <4>2. g \notin Folders
        BY <1>0, <4>1 DEF EntryInv, KindInv
      <4>. QED  BY <1>0, <1>1, <1>3, <1>4, <4>2, ConstantsOK DEF Renamed, Tree
    <3>. QED  BY <3>1, <3>2
  <2>2. i = Old(Content)[p] /\ (op.kind = "DeleteFolder" => p # Src)
    <3>1. g = None => i = Old(Content)[p]
      BY <1>3, <1>4
    <3>2. g # None /\ p \notin {Src, Dst} => i = Old(Content)[p]
      BY <1>1, <1>3, <1>4 DEF Renamed, Tree
    <3>3. g # None /\ p = Src /\ p # Dst => i = None
      BY <1>1, <1>3, <1>4 DEF Renamed, Tree
    <3>4. op.kind = "DeleteFolder" => Dst # p
      BY <1>4, <1>5 DEF Deleting
    <3>. QED  BY <1>5, <2>1, <3>1, <3>2, <3>3, <3>4
  <2>3. f = IF op.kind = "DeleteFolder" THEN [settings EXCEPT ![Src] = None] ELSE settings
    BY <1>8 DEF SettingsAfter, Src, Dst
  <2>. QED  BY <1>0, <1>1, <1>4, <1>5, <1>6, <2>2, <2>3 DEF Tree
<1>. QED  BY <1>7, <1>8

\* The settings a call has written before it fails, for the trees of before it.
LEMMA OwnBack ==
    ASSUME EntryInv, Busy, ~torn, WritesSettings(op.kind),
           NEW f \in SettingsAfter(op, settings)
    PROVE  Own(before.trees, f, astray \union Strays)
<1>0. /\ TInv /\ Content \in Trees /\ settings \in Tree /\ OnePath(Old(Content))
      /\ Src \in Places /\ Src \in Spots /\ Dst \in Spots /\ Old(Content) \in Tree
      /\ Src = Dst \/ Old(Content)[Dst] = None \/ Linked
  BY RunTypes DEF EntryInv, StoreInv, FollowInv, Inv, Busy, Trees, TInv, TypeOK
<1>1. /\ \A p \in Places : p \in Spots
      /\ None \notin Folders /\ Folders \intersect Links = {}
  BY ConstantsOK DEF Spots
<1> SUFFICES ASSUME NEW p \in Places, NEW q \in Places,
                    Old(Content)[p] \in Folders \ (astray \union Strays)
             PROVE  f[q] = Old(Content)[p] <=> q = p
  BY DEF Own, Old
<1> DEFINE i == Old(Content)[p]
<1>2. \A v \in Places : settings[v] = i <=> v = p
  BY DEF EntryInv, Own, Old
<1>3. p # Src
  BY DEF Strays, Src, Old
<1>4. CASE op.kind = "RenameFolder"
  <2>1. Old(Content)[Src] \in Folders /\ Dst \in Places
    BY <1>4 DEF EntryInv, KindInv
  <2>2. p # Dst
    BY <1>0, <1>1, <1>3, <2>1 DEF Linked
  <2>3. IF settings[Src] = None THEN f = settings
        ELSE \E e \in {settings[Src], settings[Dst]} \ {None} :
                f = [settings EXCEPT ![Src] = None, ![Dst] = e]
    BY <1>4 DEF SettingsAfter, Src, Dst
  <2>4. settings[Src] # i /\ settings[Dst] # i
    BY <1>0, <1>2, <1>3, <2>1, <2>2
  <2>5. f[Src] # i \/ f = settings
    BY <1>0, <1>1, <2>3, <2>4 DEF Tree
  <2>6. f[Dst] # i
    BY <1>0, <1>1, <2>3, <2>4 DEF Tree
  <2>7. q \notin {Src, Dst} => f[q] = settings[q]
    BY <1>0, <1>1, <2>3 DEF Tree
  <2>. QED  BY <1>2, <1>3, <2>2, <2>5, <2>6, <2>7
<1>5. CASE op.kind # "RenameFolder"
  <2>1. f = [settings EXCEPT ![Src] = None]
    BY <1>5 DEF SettingsAfter, WritesSettings, Src
  <2>. QED  BY <1>0, <1>1, <1>2, <1>3, <2>1 DEF Tree
<1>. QED  BY <1>4, <1>5

\* Where a tree's items are a part of another's, each at its path, the entries stay right.
LEMMA OwnPart ==
    ASSUME NEW T, NEW R, NEW S, NEW A, Own(T, S, A),
           \A p \in Places : R[Content][p] \in Folders => R[Content][p] = T[Content][p]
    PROVE  Own(R, S, A)
BY DEF Own

LEMMA NextEntryInv == EntryInv /\ [Next]_vars => EntryInv'
<1> SUFFICES ASSUME EntryInv, [Next]_vars PROVE EntryInv'
  OBVIOUS
<1>0. /\ StoreInv /\ StoreInv' /\ Inv /\ TInv /\ TInv' /\ TreesInv
  BY NextStoreInv, NextTInv DEF EntryInv, StoreInv, FollowInv, Inv
<1>a. /\ Content \in Trees /\ None \notin Folders
      /\ \A p \in Places : p \in Spots /\ p \notin Temps
  BY ConstantsOK DEF Trees, Spots
<1>. USE <1>0
<1>b. ASSUME /\ KindInv'
             /\ Forward' => settings' = before'.settings
             /\ ~torn' => Own(IF Busy' THEN before'.trees ELSE trees', settings', astray')
      PROVE  EntryInv'
  BY <1>b DEF EntryInv, Own
<1>1. ASSUME NEW kind \in Kinds, NEW s \in Places, NEW d \in Spots,
             Call(kind, s, d)
      PROVE  EntryInv'
  <2>1. /\ ~Busy /\ before'.trees = trees /\ before'.settings = settings
        /\ UNCHANGED <<settings, torn, astray>>
        /\ op' = [kind |-> kind, src |-> s, dst |-> d] /\ ValidCall(kind, s, d)
    BY <1>1 DEF Call, Busy, Snapshot, vault
  <2>2. KindInv'
    BY <2>1 DEF KindInv, ValidCall, Fresh, Deleting, Old, Src, Dst
  <2>3. ~torn => Own(trees, settings, astray)
    BY <2>1 DEF EntryInv
  <2>4. ~torn' => Own(before'.trees, settings', astray')
    BY <2>1, <2>3 DEF Own
  <2>5. Busy'
    BY <1>1 DEF Call, Busy
  <2>. QED  BY <2>1, <2>2, <2>4, <2>5, <1>b
<1>2. ASSUME NEW kind \in Kinds, NEW s \in Places, NEW d \in Spots,
             Refuse(kind, s, d)
      PROVE  EntryInv'
  BY <1>2, <1>b DEF Refuse, Return, vault, EntryInv, KindInv, Forward, Busy
<1>3. CASE \/ MoveTree \/ MoveFails \/ RebaseTree \/ RebaseFails \/ ReadMetaFails
           \/ RollBackTree \/ RollBackFails \/ RebaseBack \/ RebaseBackFails
  <2>1. /\ Busy /\ UNCHANGED <<before, op, settings, torn, astray>>
        /\ Forward' => Forward
        /\ Busy'
    BY <1>3 DEF MoveTree, MoveFails, RebaseTree, RebaseFails, ReadMetaFails, RollBackTree,
                RollBackFails, RebaseBack, RebaseBackFails, Busy, Forward, vault
  <2>. QED  BY <2>1, <1>b DEF EntryInv, KindInv, Old, Src, Dst
<1>4. CASE Persist
  <2>1. /\ pc = "persist" /\ ~Busy' /\ ~Forward' /\ trees' = trees /\ torn' = torn
        /\ settings' \in SettingsAfter(op, settings) /\ astray \subseteq astray'
        /\ op.kind = "RenameFolder" /\ settings[Dst] \notin {None, settings[Src]} =>
              Strays \subseteq astray'
    BY <1>4 DEF Persist, Return, Busy, Forward, Src, Dst
  <2>2. ~torn => Own(trees, settings', astray')
    BY <2>1, OwnAfter
  <2>. QED  BY <2>1, <2>2, <1>b DEF KindInv
<1>5. CASE SetSettingsFails
  <2>1. /\ Busy /\ Busy' /\ ~Forward' /\ UNCHANGED <<before, op, torn>>
        /\ WritesSettings(op.kind)
        /\ \/ settings' = settings /\ astray' = astray
           \/ settings' \in SettingsAfter(op, settings) /\ astray' = astray \union Strays
    BY <1>5 DEF SetSettingsFails, Busy, Forward
  <2>2. ~torn => Own(before.trees, settings', astray')
    BY <2>1, OwnBack DEF EntryInv
  <2>. QED  BY <2>1, <2>2, <1>b DEF EntryInv, KindInv, Old, Src, Dst
<1>6. CASE RolledBack
  <2>1. /\ pc = "rollback" /\ moved = {} /\ ~Busy' /\ ~Forward' /\ Busy /\ ~Forward
        /\ torn' = (torn \/ failures # {}) /\ UNCHANGED <<trees, settings, astray>>
    BY <1>6 DEF RolledBack, Return, vault, Busy, Forward
  <2>2. ASSUME ~torn', NEW p \in Places, trees[Content][p] \in Folders
        PROVE  trees[Content][p] = Old(Content)[p]
    <3>1. \/ trees[Content] = Old(Content)
          \/ trees[Content] = Renamed(Renamed(Old(Content), Src, Dst), Dst, Src)
      BY <1>a, <2>1, <2>2 DEF TreesInv, There
    <3>2. Old(Content) \in Tree /\ Src \in Spots /\ Dst \in Spots
      BY <1>a, <2>1, RunTypes
    <3>. QED  BY <1>a, <2>2, <3>1, <3>2, RenamedTwice
  <2>3. ~torn' => Own(trees, settings, astray)
    BY <2>1, <2>2, OwnPart DEF EntryInv, Old
  <2>. QED  BY <2>1, <2>3, <1>b DEF KindInv
<1>7. CASE Cleanup
  <2>1. /\ pc = "cleanup" /\ ~Busy /\ ~Busy' /\ ~Forward' /\ UNCHANGED <<settings, torn, astray>>
        /\ \/ trees' = [t \in Trees |-> [trees[t] EXCEPT ![op.dst] = None]]
           \/ trees' = trees
    BY <1>7 DEF Cleanup, Return, Busy, Forward
  <2>2. op.dst \in Temps
    BY <2>1 DEF StoreInv, Dst
  <2>3. \A p \in Places : trees'[Content][p] = trees[Content][p]
    BY <1>a, <2>1, <2>2 DEF TInv, TypeOK, Tree
  <2>4. ~torn' => Own(trees', settings, astray)
    BY <2>1, <2>3, OwnPart DEF EntryInv
  <2>. QED  BY <2>1, <2>4, <1>b DEF KindInv
<1>8. CASE Crash
  BY <1>8, <1>b DEF Crash, Return, KindInv, Forward, Busy
<1>9. ASSUME NEW i \in Items, NEW p \in Places,
             CreateNote(i, p) \/ WriteComments(i, p) \/ \E s \in Places : DuplicateNote(i, s, p)
      PROVE  EntryInv'
  <2>1. /\ ~Busy /\ ~Busy' /\ ~Forward' /\ UNCHANGED <<settings, astray>> /\ (torn => torn')
    BY <1>9 DEF CreateNote, WriteComments, DuplicateNote, Busy, Forward
  <2>2. \A q \in Places : trees'[Content][q] \in Folders => trees'[Content][q] = trees[Content][q]
    <3>1. CASE CreateNote(i, p) \/ \E s \in Places : DuplicateNote(i, s, p)
      <4>1. i \notin Folders /\ trees'[Content] = [trees[Content] EXCEPT ![p] = i]
        BY <1>a, <3>1 DEF CreateNote, DuplicateNote, TInv, TypeOK, Trees, Content, Comments
      <4>. QED  BY <1>a, <4>1 DEF TInv, TypeOK, Tree
    <3>2. CASE WriteComments(i, p)
      BY <3>2 DEF WriteComments, TInv, TypeOK, Content, Comments, Trees
    <3>. QED  BY <1>9, <3>1, <3>2
  <2>3. ~torn' => Own(trees', settings, astray)
    BY <2>1, <2>2, OwnPart DEF EntryInv
  <2>4. KindInv' /\ (~torn' => Own(IF Busy' THEN before'.trees ELSE trees', settings', astray'))
    BY <2>1, <2>3 DEF KindInv
  <2>. QED  BY <2>1, <2>4, <1>b
<1>10. CASE UNCHANGED vars
  BY <1>10, <1>b DEF vars, EntryInv, KindInv, Forward, Busy, Own, Old, Src, Dst
<1>. QED
  BY <1>1, <1>2, <1>3, <1>4, <1>5, <1>6, <1>7, <1>8, <1>9, <1>10 DEF Next, CallStep

\* Through calls, failures and their rollbacks a folder's entry in vault.json stays
\* under its path, whatever the vault; but for the folders of calls that failed once
\* vault.json was written or that met an entry left at their destination.
THEOREM EntriesStay == Spec => []EntriesWithFolder
<1>1. EntryInv => EntriesWithFolder
  BY DEF EntryInv, EntriesWithFolder, Own, Busy
<1>2. Spec => []EntryInv
  BY InitEntryInv, NextEntryInv, PTL DEF Spec
<1>. QED  BY <1>1, <1>2, PTL
=============================================================================
