-------------------------- MODULE AssetStoreProofs --------------------------
(***************************************************************************)
(* Proofs about AssetStore: whatever fails and wherever the process ends,  *)
(* no file is lost by an operation that was not to remove it for good, and *)
(* no deleted asset is out of reach of the Trash view.                     *)
(***************************************************************************)
EXTENDS AssetStore, TLAPS

-----------------------------------------------------------------------------
\* The inductive invariant

\* No two assets are in one place, so that a place that is free or holds
\* the asset a step is about holds no other.
Apart == \A a, b \in All : at[a] = at[b] /\ at[a] # None => a = b

\* A token's directory that holds an asset has been made by an operation, and has
\* its metadata unless a removal for good has begun.
Recorded ==
    \A a \in All, t \in Tokens : at[a] = Bin(t) => t <= ops /\ (a \in purged \/ entry[t] # None)

\* What the steps so far of the operation under way have established.
Deleting ==
    op.pc \in {"meta", "move"} =>
        /\ op.asset \in All /\ at[op.asset] \in Paths
        /\ op.token \in Tokens /\ op.token <= ops /\ Free(Bin(op.token))
        /\ op.pc = "move" => entry[op.token] # None
Renaming ==
    op.pc = "viaTemp" =>
        /\ op.asset \in All /\ at[op.asset] \in Temps
        /\ op.dest \in Paths /\ op.dest[1] \in dirs
        /\ \A f \in AssetFiles : at[f] = op.dest => op.asset \in Links
Restoring ==
    /\ op.pc = "restore" =>
          /\ op.token \in Tokens /\ op.dest \in Paths /\ op.dest[1] \in dirs
          /\ Free(op.dest)
    /\ op.pc = "clean" => op.token \in Tokens /\ Free(Bin(op.token))

\* The last operation's failure is known until the next one begins.
Failing == (op.pc = "idle" => op = Idle) /\ (op # Idle => failed = NoFailure) /\ ErrorLeaves

IInv ==
    TypeOK /\ Apart /\ Recorded /\ Deleting /\ Renaming /\ Restoring /\ Failing

-----------------------------------------------------------------------------
\* Lemmas on places

\* A place is of one kind: a path, a temporary name or a token's directory.
LEMMA OfOneKind ==
    ASSUME ConstantsOK
    PROVE  /\ \A p \in Paths : p \notin Temps \union Bins /\ TempOf(p) \in Temps
           /\ \A p \in Temps : /\ p \notin Paths \union Bins
                               /\ <<p[1], p[2][1]>> \in Paths
                               /\ TempOf(<<p[1], p[2][1]>>) = p
           /\ \A t \in Tokens : Bin(t) \in Bins /\ Bin(t) \notin Paths \union Temps
           /\ \A s, t \in Tokens : Bin(s) = Bin(t) => s = t
           /\ None \notin Places /\ None \notin All /\ None \notin Tokens
<1>1. \A p \in Paths : p \notin Temps
  BY DEF ConstantsOK, Paths, Temps
<1>2. \A p \in Paths : p \notin Bins
  BY DEF ConstantsOK, Paths, Bins, Bin
<1>3. \A p \in Temps : p \notin Bins
  BY DEF ConstantsOK, Temps, Bins, Bin
<1>4. \A p \in Paths : TempOf(p) \in Temps
  BY DEF Paths, Temps, TempOf
<1>5. \A p \in Temps : <<p[1], p[2][1]>> \in Paths /\ TempOf(<<p[1], p[2][1]>>) = p
  BY DEF Paths, Temps, TempOf
<1>6. \A t \in Tokens : Bin(t) \in Bins
  BY DEF Bins
<1>7. \A s, t \in Tokens : Bin(s) = Bin(t) => s = t
  BY DEF Bin
<1>8. None \notin Places /\ None \notin All /\ None \notin Tokens
  BY DEF ConstantsOK
<1>9. QED
  BY <1>1, <1>2, <1>3, <1>4, <1>5, <1>6, <1>7, <1>8

\* uniquePath answers a path in the directory asked for that nothing is at.
LEMMA FreePathIsFree ==
    ASSUME NEW p \in Paths, NEW q \in FreePath(p)
    PROVE  q \in Paths /\ q[1] = p[1] /\ Free(q)
<1>1. CASE Free(p)
  BY <1>1 DEF FreePath
<1>2. CASE ~Free(p)
  BY <1>2 DEF FreePath, Paths
<1>3. QED
  BY <1>1, <1>2

\* A renaming disturbs the asset it moves and whatever was at the destination, and
\* leaves assets apart.
LEMMA Displacing ==
    ASSUME ConstantsOK, TypeOK, Apart,
           NEW a \in All, NEW dest \in Places, at' = Renamed(a, dest)
    PROVE  /\ at' \in [All -> Places \union {None}]
           /\ at'[a] = dest
           /\ \A b \in All : b # a => at'[b] = IF at[b] = dest THEN None ELSE at[b]
           /\ Apart'
<1>1. \A b \in All : at'[b] = IF b = a THEN dest ELSE IF at[b] = dest THEN None ELSE at[b]
  BY DEF Renamed
<1>2. at' \in [All -> Places \union {None}]
  BY DEF Renamed, TypeOK
<1>3. Apart'
  BY <1>1 DEF Apart
<1>4. QED
  BY <1>1, <1>2, <1>3

-----------------------------------------------------------------------------
\* Lemmas on the answer: once it is given no operation is under way, and nothing is
\* left to establish of one but what was answered

Operations == [pc : Steps, asset : All \union {None}, token : Tokens \union {None},
               dest : Paths \union {None}]
Failures == [asset : All, was : Paths] \union {NoFailure}
Over ==
    /\ op \in Operations /\ failed \in Failures
    /\ Deleting /\ Renaming /\ Restoring /\ Failing

LEMMA IdleIsOne == Idle \in Operations /\ Idle.pc = "idle"
BY DEF Idle, Operations, Steps

LEMMA AnsweredIsOver ==
    ASSUME Answer
    PROVE  Over'
<1>1. op' = Idle /\ failed' = NoFailure
  BY DEF Answer
<1>2. op' \in Operations /\ op'.pc = "idle" /\ failed' \in Failures
  BY <1>1, IdleIsOne DEF Failures
<1>3. Deleting' /\ Renaming' /\ Restoring'
  BY <1>2 DEF Deleting, Renaming, Restoring
<1>4. Failing'
  BY <1>1 DEF Failing, ErrorLeaves
<1>5. QED
  BY <1>2, <1>3, <1>4 DEF Over, Operations, Failures

\* A refusal has told the truth if the asset is where it was, or under its temporary
\* name, or a link that leads nowhere.
LEMMA RefusedIsOver ==
    ASSUME NEW a \in All, NEW was \in Paths, Refuse(a, was), names' = names,
           at'[a] \in {was, TempOf(was)} \/ (a \in Links /\ FileFrom(at', a) = {})
    PROVE  Over'
<1>1. op' = Idle /\ failed' = [asset |-> a, was |-> was]
  BY DEF Refuse
<1>2. op' \in Operations /\ op'.pc = "idle" /\ failed' \in Failures
  BY <1>1, IdleIsOne DEF Failures
<1>3. Deleting' /\ Renaming' /\ Restoring'
  BY <1>2 DEF Deleting, Renaming, Restoring
<1>4. LeadsTo(a)' = FileFrom(at', a)
  BY DEF LeadsTo, FileFrom, PathNamed
<1>5. ErrorLeaves'
  BY <1>1, <1>4 DEF ErrorLeaves
<1>6. Failing'
  BY <1>1, <1>5 DEF Failing
<1>7. QED
  BY <1>2, <1>3, <1>6 DEF Over, Operations, Failures

LEMMA DescribedIsOver ==
    ASSUME NEW a \in All, NEW was \in Paths, Describe(a, was), names' = names
    PROVE  Over'
<1>1. CASE FileFrom(at', a) = {}
  <2>1. a \in Links
    BY <1>1 DEF FileFrom, All
  <2>2. QED
    BY <1>1, <2>1, RefusedIsOver DEF Describe
<1>2. CASE FileFrom(at', a) # {}
  BY <1>2, AnsweredIsOver DEF Describe
<1>3. QED
  BY <1>1, <1>2

\* What is left to show of a step that answers.
LEMMA OverIsEnough ==
    ASSUME Over',
           at' \in [All -> Places \union {None}], names' \in [Links -> Paths],
           entry' \in [Tokens -> Paths \union {None}], dirs' \in SUBSET Dirs,
           \A a \in All : at'[a] \in Paths => at'[a][1] \in dirs',
           purged' \in SUBSET All, ops' \in 0..MaxOps, faults' \in 0..Faults,
           Apart', Recorded'
    PROVE  IInv'
<1>1. TypeOK'
  BY DEF TypeOK, Over, Operations, Failures
<1>2. QED
  BY <1>1 DEF IInv, Over

-----------------------------------------------------------------------------
\* Each step keeps the invariant

\* What a bin records is kept when assets come to bins in no other way, no metadata
\* goes away and no removal is forgotten.
LEMMA StillRecorded ==
    ASSUME Recorded, TypeOK,
           \A a \in All, t \in Tokens : at'[a] = Bin(t) => at[a] = Bin(t),
           entry' = entry, \A a \in All, t \in Tokens :
               at'[a] = Bin(t) /\ a \in purged => a \in purged',
           ops' \in Nat, ops' >= ops
    PROVE  Recorded'
BY DEF Recorded, TypeOK, Tokens

LEMMA InitInv == ASSUME ConstantsOK, Init PROVE IInv
<1>1. PICK place \in [All -> Paths \union {None}] :
        /\ \A a, b \in All : a # b /\ place[a] # None => place[a] # place[b]
        /\ \A l \in Links : place[l] # None
        /\ at = place
  BY DEF Init
<1>2. PICK f \in [Links -> AssetFiles] :
        /\ \A l \in Links : at[f[l]] \in Paths /\ (l \in RelativeLinks => at[f[l]][1] = at[l][1])
        /\ names = [l \in Links |-> at[f[l]]]
  BY DEF Init
<1>3. at \in [All -> Places \union {None}] /\ \A a \in All : at[a] \in Paths \union {None}
  BY <1>1 DEF Places
<1>4. names \in [Links -> Paths]
  BY <1>2
<1>5. /\ dirs \in SUBSET Dirs
      /\ \A a \in All : at[a] \in Paths => at[a][1] \in dirs
  <2>1. dirs = {at[a][1] : a \in {b \in All : at[b] \in Paths}} \union {Assets}
    BY DEF Init
  <2>2. \A p \in Paths : p[1] \in Dirs
    BY DEF Paths
  <2>3. QED
    BY <2>1, <2>2 DEF ConstantsOK
<1>6. TypeOK
  BY <1>3, <1>4, <1>5, IdleIsOne DEF Init, TypeOK, Operations, ConstantsOK
<1>7. Apart
  BY <1>1 DEF Apart
<1>8. Recorded
  BY <1>3, OfOneKind DEF Recorded, Places
<1>9. Deleting /\ Renaming /\ Restoring /\ Failing
  BY IdleIsOne DEF Init, Deleting, Renaming, Restoring, Failing, ErrorLeaves
<1>10. QED
  BY <1>6, <1>7, <1>8, <1>9 DEF IInv

LEMMA ImportStep ==
    ASSUME ConstantsOK, IInv, NEW f \in AssetFiles, Import(f)
    PROVE  IInv'
<1>1. TypeOK /\ Apart /\ Recorded
  BY DEF IInv
<1>2. Over'
  BY AnsweredIsOver DEF Import
<1>3. /\ names' = names /\ entry' = entry /\ purged' = purged /\ faults' = faults
      /\ ops' = ops + 1 /\ ops < MaxOps /\ f \in All /\ dirs' = dirs \union {Assets}
  BY DEF Import, Begin, All
<1>4. ops' \in 0..MaxOps /\ ops' \in Nat /\ ops' >= ops /\ dirs' \in SUBSET Dirs
  BY <1>1, <1>3 DEF TypeOK, ConstantsOK
<1>5. CASE at' = at
  <2>1. /\ at' \in [All -> Places \union {None}]
        /\ \A a \in All : at'[a] \in Paths => at'[a][1] \in dirs'
    BY <1>1, <1>3, <1>5 DEF TypeOK
  <2>2. Apart' /\ Recorded'
    BY <1>1, <1>3, <1>4, <1>5, StillRecorded DEF Apart
  <2>3. QED
    BY <1>1, <1>2, <1>3, <1>4, <2>1, <2>2, OverIsEnough DEF TypeOK
<1>6. CASE at' # at
  <2>1. PICK n \in BaseNames : \E p \in FreePath(<<Assets, n>>) : at' = [at EXCEPT ![f] = p]
    BY <1>6 DEF Import
  <2>2. PICK p \in FreePath(<<Assets, n>>) : at' = [at EXCEPT ![f] = p]
    BY <2>1
  <2>3. <<Assets, n>> \in Paths
    BY DEF ConstantsOK, Paths
  <2>4. p \in Paths /\ p[1] = Assets /\ Free(p)
    BY <2>2, <2>3, FreePathIsFree
  <2>5. \A a \in All : at'[a] = IF a = f THEN p ELSE at[a]
    BY <1>1, <2>2 DEF TypeOK
  <2>6. at' \in [All -> Places \union {None}]
    BY <1>1, <2>2, <2>4 DEF TypeOK, Places
  <2>7. \A a \in All : at'[a] \in Paths => at'[a][1] \in dirs'
    BY <1>1, <1>3, <2>4, <2>5 DEF TypeOK
  <2>8. Apart'
    BY <1>1, <2>4, <2>5 DEF Apart, Free
  <2>9. Recorded'
    BY <1>1, <1>3, <1>4, <2>4, <2>5, OfOneKind, StillRecorded
  <2>10. QED
    BY <1>1, <1>2, <1>3, <1>4, <2>6, <2>7, <2>8, <2>9, OverIsEnough DEF TypeOK
<1>7. QED
  BY <1>5, <1>6

\* A refusal that leaves everything where it was.
LEMMA RefusedStep ==
    ASSUME ConstantsOK, IInv, NEW a \in All, at[a] \in Paths, Refuse(a, at[a]),
           at' = at, names' = names, entry' = entry, purged' = purged,
           dirs' \in SUBSET Dirs, dirs \subseteq dirs',
           ops' \in {ops, ops + 1}, ops' \in 0..MaxOps, faults' \in 0..Faults
    PROVE  IInv'
<1>1. TypeOK /\ Apart /\ Recorded
  BY DEF IInv
<1>2. Over'
  BY RefusedIsOver
<1>3. Apart' /\ \A b \in All : at'[b] \in Paths => at'[b][1] \in dirs'
  BY <1>1 DEF Apart, TypeOK
<1>4. Recorded'
  BY <1>1, StillRecorded DEF TypeOK
<1>5. QED
  BY <1>1, <1>2, <1>3, <1>4, OverIsEnough DEF TypeOK

\* A renaming to a path, after which the operation is over.
LEMMA RenamedStep ==
    ASSUME ConstantsOK, IInv, NEW a \in All, NEW dest \in Paths, at' = Renamed(a, dest), Over',
           names' = names, entry' = entry, purged' = purged,
           dirs' \in SUBSET Dirs, dirs \subseteq dirs', dest[1] \in dirs',
           ops' \in {ops, ops + 1}, ops' \in 0..MaxOps, faults' \in 0..Faults
    PROVE  IInv'
<1>1. TypeOK /\ Apart /\ Recorded
  BY DEF IInv
<1>2. /\ at' \in [All -> Places \union {None}]
      /\ at'[a] = dest
      /\ \A b \in All : b # a => at'[b] = IF at[b] = dest THEN None ELSE at[b]
      /\ Apart'
  BY <1>1, Displacing DEF Places
<1>3. \A b \in All : at'[b] \in Paths => at'[b][1] \in dirs'
  BY <1>1, <1>2, OfOneKind DEF TypeOK, Places
<1>4. \A b \in All, t \in Tokens : at'[b] = Bin(t) => at[b] = Bin(t)
  BY <1>2, OfOneKind DEF Places
<1>5. Recorded'
  BY <1>1, <1>4, StillRecorded DEF TypeOK
<1>6. QED
  BY <1>1, <1>2, <1>3, <1>5, OverIsEnough DEF TypeOK

\* The asset of an operation is at a path of a directory that there is.
LEMMA ServableIsAtPath ==
    ASSUME TypeOK, NEW a \in Servable
    PROVE  /\ a \in All /\ at[a] \in Paths /\ at[a][1] \in dirs
           /\ at[a][1] \in Dirs /\ at[a][2] \in BaseNames
           /\ \A n \in BaseNames : <<at[a][1], n>> \in Paths
BY DEF TypeOK, Servable, Present, Paths

LEMMA RenameStep ==
    ASSUME ConstantsOK, IInv, NEW a \in All, Rename(a)
    PROVE  IInv'
<1>1. TypeOK /\ Apart /\ Recorded
  BY DEF IInv
<1>2. /\ ops < MaxOps /\ ops' = ops + 1 /\ a \in Servable
      /\ names' = names /\ entry' = entry /\ dirs' = dirs /\ purged' = purged
  BY DEF Rename, Begin
<1>3. /\ at[a] \in Paths /\ at[a][1] \in dirs
      /\ \A n \in BaseNames : <<at[a][1], n>> \in Paths
  BY <1>1, <1>2, ServableIsAtPath
<1>4. /\ ops' \in 0..MaxOps /\ dirs' \in SUBSET Dirs
      /\ faults' = faults \/ Fault => faults' \in 0..Faults
  BY <1>1, <1>2 DEF TypeOK, Fault, ConstantsOK
<1> DEFINE Dest(n) == <<at[a][1], n>>
           There(n) == {b \in Servable \ {a} : at[b] = Dest(n)}
<1>5. PICK n \in BaseNames :
        \/ at' = Renamed(a, Dest(n)) /\ Answer /\ UNCHANGED faults
        \/ Fault /\ Refuse(a, at[a]) /\ UNCHANGED at
        \/ Refuse(a, at[a]) /\ UNCHANGED <<at, faults>>
        \/ /\ \E b \in There(n) : LeadsTo(b) = LeadsTo(a)
           /\ at' = Renamed(a, TempOf(at[a]))
           /\ Start([Idle EXCEPT !.pc = "viaTemp", !.asset = a, !.dest = Dest(n)])
           /\ UNCHANGED faults
  BY DEF Rename
<1>6. CASE at' = Renamed(a, Dest(n)) /\ Answer /\ UNCHANGED faults
  <2>1. Over'
    BY <1>6, AnsweredIsOver
  <2>2. Dest(n) \in Paths /\ Dest(n)[1] \in dirs'
    BY <1>2, <1>3
  <2>3. QED
    BY <1>2, <1>4, <1>6, <2>1, <2>2, RenamedStep
<1>7. CASE (Fault \/ UNCHANGED faults) /\ Refuse(a, at[a]) /\ UNCHANGED at
  BY <1>2, <1>3, <1>4, <1>7, RefusedStep
<1>8. CASE /\ \E b \in There(n) : LeadsTo(b) = LeadsTo(a)
           /\ at' = Renamed(a, TempOf(at[a]))
           /\ Start([Idle EXCEPT !.pc = "viaTemp", !.asset = a, !.dest = Dest(n)])
           /\ UNCHANGED faults
  <2>1. PICK b \in There(n) : LeadsTo(b) = LeadsTo(a)
    BY <1>8
  <2>2. b \in All /\ b # a /\ at[b] = Dest(n)
    BY <1>1, ServableIsAtPath
  <2>3. TempOf(at[a]) \in Temps /\ TempOf(at[a]) \in Places /\ Dest(n) \in Paths
    BY <1>3, OfOneKind DEF Places
  <2>4. /\ at' \in [All -> Places \union {None}]
        /\ at'[a] = TempOf(at[a])
        /\ \A c \in All : c # a => at'[c] = IF at[c] = TempOf(at[a]) THEN None ELSE at[c]
        /\ Apart'
    BY <1>1, <1>8, <2>3, Displacing
  <2>5. /\ op'.pc = "viaTemp" /\ op'.asset = a /\ op'.token = None /\ op'.dest = Dest(n)
        /\ op' \in Operations /\ failed' = NoFailure
    BY <1>8, <2>3, IdleIsOne DEF Start, Idle, Operations, Steps
  <2>6. \A c \in All : at'[c] \in Paths => at'[c][1] \in dirs'
    BY <1>1, <1>2, <2>3, <2>4, OfOneKind DEF TypeOK, Places
  <2>7. \A c \in All, t \in Tokens : at'[c] = Bin(t) => at[c] = Bin(t)
    BY <2>3, <2>4, OfOneKind DEF Places
  <2>8. Recorded'
    BY <1>1, <1>2, <1>4, <2>7, StillRecorded DEF TypeOK
  <2>9. \A f \in AssetFiles : at'[f] = Dest(n) => a \in Links
    <3>1. SUFFICES ASSUME NEW f \in AssetFiles, at'[f] = Dest(n), a \notin Links PROVE FALSE
      OBVIOUS
    <3>2. f \in All /\ f # a /\ at[f] = Dest(n) /\ Dest(n) # None
      BY <2>3, <2>4, <3>1, OfOneKind DEF All, Places
    <3>3. f = b
      BY <1>1, <2>2, <3>2 DEF Apart
    <3>4. LeadsTo(b) = {b} /\ LeadsTo(a) = {a}
      BY <3>1, <3>3 DEF LeadsTo, FileFrom, All
    <3>5. QED
      BY <2>1, <2>2, <3>4
  <2>10. Renaming'
    BY <1>2, <1>3, <2>3, <2>4, <2>5, <2>9 DEF Renaming
  <2>11. Deleting' /\ Restoring' /\ Failing'
    BY <2>5 DEF Deleting, Restoring, Failing, ErrorLeaves
  <2>12. Over'
    BY <2>5, <2>10, <2>11 DEF Over, Operations, Failures
  <2>13. QED
    BY <1>1, <1>2, <1>4, <1>8, <2>4, <2>6, <2>8, <2>12, OverIsEnough DEF TypeOK
<1>9. QED
  BY <1>5, <1>6, <1>7, <1>8

LEMMA RenameFromTempStep ==
    ASSUME ConstantsOK, IInv, RenameFromTemp
    PROVE  IInv'
<1> DEFINE was == <<at[op.asset][1], at[op.asset][2][1]>>
<1>1. TypeOK /\ Apart /\ Recorded /\ Renaming
  BY DEF IInv
<1>2. /\ op.asset \in All /\ at[op.asset] \in Temps
      /\ op.dest \in Paths /\ op.dest[1] \in dirs
  BY <1>1 DEF RenameFromTemp, Renaming
<1>3. was \in Paths /\ TempOf(was) = at[op.asset]
  BY <1>2, OfOneKind
<1>4. /\ names' = names /\ entry' = entry /\ dirs' = dirs /\ purged' = purged /\ ops' = ops
      /\ ops' \in 0..MaxOps /\ dirs' \in SUBSET Dirs
      /\ faults' = faults \/ Fault => faults' \in 0..Faults
  BY <1>1 DEF RenameFromTemp, TypeOK, Fault, ConstantsOK
<1>5. CASE at' = Renamed(op.asset, op.dest) /\ Describe(op.asset, was) /\ UNCHANGED faults
  <2>1. Over'
    BY <1>2, <1>3, <1>4, <1>5, DescribedIsOver
  <2>2. QED
    BY <1>2, <1>4, <1>5, <2>1, RenamedStep
<1>6. CASE Fault /\ Refuse(op.asset, was) /\ UNCHANGED at
  <2>1. Over'
    BY <1>2, <1>3, <1>4, <1>6, RefusedIsOver
  <2>2. Apart' /\ \A b \in All : at'[b] \in Paths => at'[b][1] \in dirs'
    BY <1>1, <1>4, <1>6 DEF Apart, TypeOK
  <2>3. Recorded'
    BY <1>1, <1>4, <1>6, StillRecorded DEF TypeOK
  <2>4. QED
    BY <1>1, <1>4, <1>6, <2>1, <2>2, <2>3, OverIsEnough DEF TypeOK
<1>7. QED
  BY <1>5, <1>6 DEF RenameFromTemp

LEMMA MoveStep ==
    ASSUME ConstantsOK, IInv, NEW a \in All, Move(a)
    PROVE  IInv'
<1>1. TypeOK
  BY DEF IInv
<1>2. /\ ops < MaxOps /\ ops' = ops + 1 /\ a \in Servable
      /\ names' = names /\ entry' = entry /\ purged' = purged
  BY DEF Move, Begin
<1>3. at[a] \in Paths /\ at[a][2] \in BaseNames
  BY <1>1, <1>2, ServableIsAtPath
<1>4. ops' \in 0..MaxOps /\ (faults' = faults \/ Fault => faults' \in 0..Faults)
  BY <1>1, <1>2 DEF TypeOK, Fault, ConstantsOK
<1>5. PICK d \in Dirs \ {at[a][1]} :
        /\ dirs' = dirs \union {d}
        /\ \/ \E p \in FreePath(<<d, at[a][2]>>) :
                at' = Renamed(a, p) /\ Describe(a, at[a]) /\ UNCHANGED faults
           \/ Fault /\ Refuse(a, at[a]) /\ UNCHANGED at
  BY DEF Move
<1>6. dirs' \in SUBSET Dirs /\ dirs \subseteq dirs'
  BY <1>1, <1>5 DEF TypeOK
<1>7. CASE Fault /\ Refuse(a, at[a]) /\ UNCHANGED at
  BY <1>2, <1>3, <1>4, <1>6, <1>7, RefusedStep
<1>8. ASSUME NEW p \in FreePath(<<d, at[a][2]>>),
             at' = Renamed(a, p), Describe(a, at[a]), UNCHANGED faults
      PROVE  IInv'
  <2>1. <<d, at[a][2]>> \in Paths
    BY <1>3, <1>5 DEF Paths
  <2>2. p \in Paths /\ p[1] = d
    BY <1>8, <2>1, FreePathIsFree
  <2>3. Over'
    BY <1>2, <1>3, <1>8, DescribedIsOver
  <2>4. p[1] \in dirs'
    BY <1>5, <2>2
  <2>5. QED
    BY <1>2, <1>4, <1>6, <1>8, <2>2, <2>3, <2>4, RenamedStep
<1>9. QED
  BY <1>5, <1>7, <1>8

\* A step that moves nothing, when it keeps what the operation has established.
LEMMA StandingStep ==
    ASSUME ConstantsOK, IInv, at' = at, names' = names, purged' = purged, Over', Recorded',
           entry' \in [Tokens -> Paths \union {None}],
           dirs' \in SUBSET Dirs, dirs \subseteq dirs',
           ops' \in 0..MaxOps, faults' \in 0..Faults
    PROVE  IInv'
<1>1. TypeOK /\ Apart
  BY DEF IInv
<1>2. Apart' /\ \A a \in All : at'[a] \in Paths => at'[a][1] \in dirs'
  BY <1>1 DEF Apart, TypeOK
<1>3. QED
  BY <1>1, <1>2, OverIsEnough DEF TypeOK

LEMMA DeleteStep ==
    ASSUME ConstantsOK, IInv, NEW a \in All, Delete(a)
    PROVE  IInv'
<1>1. TypeOK /\ Recorded
  BY DEF IInv
<1>2. /\ ops < MaxOps /\ ops' = ops + 1 /\ a \in Servable
      /\ at' = at /\ names' = names /\ entry' = entry /\ dirs' = dirs /\ purged' = purged
  BY DEF Delete, Begin
<1>3. at[a] \in Paths
  BY <1>1, <1>2, ServableIsAtPath
<1>4. ops' \in 0..MaxOps /\ NewToken \in Tokens /\ NewToken <= ops'
  BY <1>1, <1>2 DEF TypeOK, NewToken, Tokens, ConstantsOK
<1>5. CASE Fault /\ Refuse(a, at[a])
  <2>1. faults' \in 0..Faults
    BY <1>1, <1>5 DEF TypeOK, Fault, ConstantsOK
  <2>2. QED
    BY <1>1, <1>2, <1>3, <1>4, <1>5, <2>1, RefusedStep DEF TypeOK
<1>6. CASE /\ Start([Idle EXCEPT !.pc = "meta", !.asset = a, !.token = NewToken])
           /\ UNCHANGED faults
  <2>1. /\ op'.pc = "meta" /\ op'.asset = a /\ op'.token = NewToken
        /\ op' \in Operations /\ failed' = NoFailure
    BY <1>4, <1>6, IdleIsOne DEF Start, Idle, Operations, Steps
  <2>2. Free(Bin(NewToken))
    <3>1. SUFFICES ASSUME NEW b \in All, at[b] = Bin(NewToken) PROVE FALSE
      BY DEF Free
    <3>2. NewToken <= ops
      BY <1>1, <1>4, <3>1 DEF Recorded
    <3>3. QED
      BY <1>1, <3>2 DEF NewToken, TypeOK
  <2>3. \A b \in All : at'[b] # Bin(op'.token)
    BY <1>2, <2>1, <2>2 DEF Free
  <2>4. Deleting'
    BY <1>2, <1>3, <1>4, <2>1, <2>3 DEF Deleting, Free
  <2>5. Renaming' /\ Restoring' /\ Failing'
    BY <2>1 DEF Renaming, Restoring, Failing, ErrorLeaves
  <2>6. Over'
    BY <2>1, <2>4, <2>5 DEF Over, Operations, Failures
  <2>7. Recorded'
    BY <1>1, <1>2, <1>4, StillRecorded DEF TypeOK
  <2>8. QED
    BY <1>1, <1>2, <1>4, <1>6, <2>6, <2>7, StandingStep DEF TypeOK
<1>7. QED
  BY <1>5, <1>6 DEF Delete

LEMMA DeleteMetaStep ==
    ASSUME ConstantsOK, IInv, DeleteMeta
    PROVE  IInv'
<1>1. TypeOK /\ Recorded /\ Deleting /\ Failing
  BY DEF IInv
<1>2. /\ op.pc = "meta" /\ at' = at /\ names' = names /\ dirs' = dirs
      /\ purged' = purged /\ ops' = ops
  BY DEF DeleteMeta
<1>3. /\ op.asset \in All /\ at[op.asset] \in Paths
      /\ op.token \in Tokens /\ op.token <= ops /\ Free(Bin(op.token))
  BY <1>1, <1>2 DEF Deleting
<1>4. CASE /\ entry' = [entry EXCEPT ![op.token] = at[op.asset]]
           /\ op' = [op EXCEPT !.pc = "move"]
           /\ UNCHANGED <<failed, faults>>
  <2>1. /\ entry' \in [Tokens -> Paths \union {None}]
        /\ entry'[op.token] # None
        /\ \A t \in Tokens : entry[t] # None => entry'[t] # None
    BY <1>1, <1>3, <1>4, OfOneKind DEF TypeOK, Places
  <2>2. Recorded'
    BY <1>1, <1>2, <2>1 DEF Recorded
  <2>3. /\ op'.pc = "move" /\ op'.asset = op.asset /\ op'.token = op.token
        /\ op' \in Operations
    BY <1>1, <1>4 DEF TypeOK, Operations, Steps
  <2>4. failed' = NoFailure /\ failed' \in Failures
    BY <1>1, <1>2, <1>4 DEF Failing, Idle, Failures
  <2>5. \A b \in All : at'[b] # Bin(op'.token)
    BY <1>2, <1>3, <2>3 DEF Free
  <2>6. Deleting'
    BY <1>2, <1>3, <2>1, <2>3, <2>5 DEF Deleting, Free
  <2>7. Renaming' /\ Restoring' /\ Failing'
    BY <2>3, <2>4 DEF Renaming, Restoring, Failing, ErrorLeaves
  <2>8. Over'
    BY <2>3, <2>4, <2>6, <2>7 DEF Over, Operations, Failures
  <2>9. QED
    BY <1>1, <1>2, <1>4, <2>1, <2>2, <2>8, StandingStep DEF TypeOK
<1>5. CASE Fault /\ Refuse(op.asset, at[op.asset]) /\ UNCHANGED entry
  <2>1. faults' \in 0..Faults
    BY <1>1, <1>5 DEF TypeOK, Fault, ConstantsOK
  <2>2. QED
    BY <1>1, <1>2, <1>3, <1>5, <2>1, RefusedStep DEF TypeOK
<1>6. QED
  BY <1>4, <1>5 DEF DeleteMeta

\* Removing the directory of a token that holds nothing, or failing to.
LEMMA CleanedUp ==
    ASSUME ConstantsOK, TypeOK, Recorded, NEW t \in Tokens, Free(Bin(t)), Cleanup(t),
           at' = at, purged' = purged, ops' = ops
    PROVE  Recorded' /\ entry' \in [Tokens -> Paths \union {None}] /\ faults' \in 0..Faults
<1>1. CASE entry' = [entry EXCEPT ![t] = None] /\ UNCHANGED faults
  <2>1. \A a \in All : at'[a] # Bin(t)
    BY DEF Free
  <2>2. \A s \in Tokens : s # t => entry'[s] = entry[s]
    BY <1>1 DEF TypeOK
  <2>3. Recorded'
    BY <2>1, <2>2 DEF Recorded
  <2>4. QED
    BY <1>1, <2>3 DEF TypeOK
<1>2. CASE Fault /\ UNCHANGED entry
  BY <1>2 DEF Fault, TypeOK, Recorded, ConstantsOK
<1>3. QED
  BY <1>1, <1>2 DEF Cleanup

LEMMA DeleteMoveStep ==
    ASSUME ConstantsOK, IInv, DeleteMove
    PROVE  IInv'
<1>1. TypeOK /\ Apart /\ Recorded /\ Deleting
  BY DEF IInv
<1>2. op.pc = "move" /\ names' = names /\ dirs' = dirs /\ purged' = purged /\ ops' = ops
  BY DEF DeleteMove
<1>3. /\ op.asset \in All /\ at[op.asset] \in Paths /\ op.token \in Tokens
      /\ op.token <= ops /\ Free(Bin(op.token)) /\ entry[op.token] # None
  BY <1>1, <1>2 DEF Deleting
<1>4. CASE at' = Renamed(op.asset, Bin(op.token)) /\ Answer /\ UNCHANGED <<entry, faults>>
  <2>1. Bin(op.token) \in Places
    BY <1>3, OfOneKind DEF Places
  <2>2. /\ at' \in [All -> Places \union {None}]
        /\ at'[op.asset] = Bin(op.token)
        /\ \A b \in All : b # op.asset => at'[b] \in {at[b], None}
        /\ Apart'
    BY <1>1, <1>3, <1>4, <2>1, Displacing
  <2>3. \A b \in All : at'[b] \in Paths => at'[b][1] \in dirs'
    BY <1>1, <1>2, <1>3, <2>2, OfOneKind DEF TypeOK, Places
  <2>4. Recorded'
    <3>1. SUFFICES ASSUME NEW b \in All, NEW t \in Tokens, at'[b] = Bin(t)
                   PROVE  t <= ops /\ (b \in purged \/ entry[t] # None)
      BY <1>2, <1>4 DEF Recorded
    <3>2. CASE b = op.asset
      BY <1>3, <2>2, <3>1, <3>2, OfOneKind
    <3>3. CASE b # op.asset
      <4>1. at[b] = Bin(t)
        BY <2>2, <3>1, <3>3, OfOneKind DEF Places
      <4>2. QED
        BY <1>1, <4>1 DEF Recorded
    <3>4. QED
      BY <3>2, <3>3
  <2>5. Over'
    BY <1>4, AnsweredIsOver
  <2>6. QED
    BY <1>1, <1>2, <1>4, <2>2, <2>3, <2>4, <2>5, OverIsEnough DEF TypeOK
<1>5. CASE Refuse(op.asset, at[op.asset]) /\ Cleanup(op.token) /\ UNCHANGED at
  <2>1. Recorded' /\ entry' \in [Tokens -> Paths \union {None}] /\ faults' \in 0..Faults
    BY <1>1, <1>2, <1>3, <1>5, CleanedUp
  <2>2. Over'
    BY <1>2, <1>3, <1>5, RefusedIsOver
  <2>3. QED
    BY <1>1, <1>2, <1>5, <2>1, <2>2, StandingStep DEF TypeOK
<1>6. QED
  BY <1>4, <1>5 DEF DeleteMove

LEMMA RestoreStep ==
    ASSUME ConstantsOK, IInv, NEW t \in Tokens, Restore(t)
    PROVE  IInv'
<1>1. TypeOK /\ Recorded
  BY DEF IInv
<1>2. /\ ops < MaxOps /\ ops' = ops + 1 /\ entry[t] # None
      /\ at' = at /\ names' = names /\ entry' = entry /\ purged' = purged /\ faults' = faults
      /\ dirs' = dirs \union {entry[t][1]}
  BY DEF Restore, Begin
<1>3. entry[t] \in Paths
  BY <1>1, <1>2 DEF TypeOK
<1>4. dirs' \in SUBSET Dirs /\ ops' \in 0..MaxOps
  BY <1>1, <1>2, <1>3 DEF TypeOK, Paths, ConstantsOK
<1>5. PICK p \in FreePath(entry[t]) :
        Start([Idle EXCEPT !.pc = "restore", !.token = t, !.dest = p])
  BY DEF Restore
<1>6. p \in Paths /\ p[1] \in dirs' /\ Free(p)
  BY <1>2, <1>3, <1>5, FreePathIsFree
<1>7. /\ op'.pc = "restore" /\ op'.token = t /\ op'.dest = p
      /\ op' \in Operations /\ failed' = NoFailure
  BY <1>5, <1>6, IdleIsOne DEF Start, Idle, Operations, Steps
<1>8. \A a \in All : at'[a] # op'.dest
  BY <1>2, <1>6, <1>7 DEF Free
<1>9. Restoring'
  BY <1>6, <1>7, <1>8 DEF Restoring, Free
<1>10. Deleting' /\ Renaming' /\ Failing'
  BY <1>7 DEF Deleting, Renaming, Failing, ErrorLeaves
<1>11. Over'
  BY <1>7, <1>9, <1>10 DEF Over, Operations, Failures
<1>12. Recorded'
  BY <1>1, <1>2, <1>4, StillRecorded DEF TypeOK
<1>13. QED
  BY <1>1, <1>2, <1>4, <1>11, <1>12, StandingStep DEF TypeOK

LEMMA RestoreMoveStep ==
    ASSUME ConstantsOK, IInv, RestoreMove
    PROVE  IInv'
<1>1. TypeOK /\ Apart /\ Recorded /\ Restoring /\ Failing
  BY DEF IInv
<1>2. /\ op.pc = "restore" /\ names' = names /\ entry' = entry /\ dirs' = dirs /\ ops' = ops
  BY DEF RestoreMove
<1>3. /\ op.token \in Tokens /\ op.dest \in Paths /\ op.dest[1] \in dirs /\ Free(op.dest)
      /\ op.dest \in Places
  BY <1>1, <1>2 DEF Restoring, Places
<1>4. ASSUME NEW a \in Restorable(op.token), Restored(a),
             op' = [op EXCEPT !.pc = "clean"], UNCHANGED <<failed, faults>>
      PROVE  IInv'
  <2>1. a \in All /\ at[a] = Bin(op.token) /\ at' = Renamed(a, op.dest) /\ purged' = purged \ {a}
    BY <1>4 DEF Restorable, Restored
  <2>2. /\ at' \in [All -> Places \union {None}]
        /\ at'[a] = op.dest
        /\ \A b \in All : b # a => at'[b] = at[b]
        /\ Apart'
    BY <1>1, <1>3, <2>1, Displacing DEF Free
  <2>3. \A b \in All : at'[b] \in Paths => at'[b][1] \in dirs'
    BY <1>1, <1>2, <1>3, <2>2 DEF TypeOK
  <2>4. \A b \in All, t \in Tokens : at'[b] = Bin(t) => b # a /\ at[b] = Bin(t)
    BY <1>3, <2>2, OfOneKind
  <2>5. Recorded'
    BY <1>1, <1>2, <2>1, <2>4, StillRecorded DEF TypeOK
  <2>6. Free(Bin(op.token))'
    <3>1. SUFFICES ASSUME NEW b \in All, at'[b] = Bin(op.token) PROVE FALSE
      BY <1>4 DEF Free, TypeOK
    <3>2. b # a /\ at[b] = Bin(op.token)
      BY <1>3, <2>4, <3>1
    <3>3. Bin(op.token) # None
      BY <1>3, OfOneKind DEF Places
    <3>4. QED
      BY <1>1, <2>1, <3>2, <3>3 DEF Apart
  <2>7. op'.pc = "clean" /\ op'.token = op.token /\ op' \in Operations
    BY <1>1, <1>4 DEF TypeOK, Operations, Steps
  <2>8. failed' = NoFailure /\ failed' \in Failures
    BY <1>1, <1>2, <1>4 DEF Failing, Idle, Failures
  <2>9. Restoring'
    BY <1>3, <2>6, <2>7 DEF Restoring
  <2>10. Deleting' /\ Renaming' /\ Failing'
    BY <2>7, <2>8 DEF Deleting, Renaming, Failing, ErrorLeaves
  <2>11. Over'
    BY <2>7, <2>8, <2>9, <2>10 DEF Over, Operations, Failures
  <2>12. QED
    BY <1>1, <1>2, <1>4, <2>1, <2>2, <2>3, <2>5, <2>11, OverIsEnough DEF TypeOK
<1>5. CASE Answer /\ UNCHANGED <<at, purged>> /\ (Fault \/ UNCHANGED faults)
  <2>1. faults' \in 0..Faults
    BY <1>1, <1>5 DEF Fault, TypeOK, ConstantsOK
  <2>2. Over' /\ Recorded'
    BY <1>1, <1>2, <1>5, AnsweredIsOver, StillRecorded DEF TypeOK
  <2>3. QED
    BY <1>1, <1>2, <1>5, <2>1, <2>2, StandingStep DEF TypeOK
<1>6. QED
  BY <1>4, <1>5 DEF RestoreMove

LEMMA RestoreCleanStep ==
    ASSUME ConstantsOK, IInv, RestoreClean
    PROVE  IInv'
<1>1. TypeOK /\ Recorded /\ Restoring
  BY DEF IInv
<1>2. /\ op.pc = "clean" /\ Cleanup(op.token) /\ Answer
      /\ names' = names /\ dirs' = dirs /\ purged' = purged /\ ops' = ops
  BY DEF RestoreClean
<1>3. op.token \in Tokens /\ Free(Bin(op.token))
  BY <1>1, <1>2 DEF Restoring
<1>4. at' = at
  BY <1>1, <1>3 DEF RestoreClean, Free, TypeOK
<1>5. Recorded' /\ entry' \in [Tokens -> Paths \union {None}] /\ faults' \in 0..Faults
  BY <1>1, <1>2, <1>3, <1>4, CleanedUp
<1>6. QED
  BY <1>1, <1>2, <1>4, <1>5, AnsweredIsOver, StandingStep DEF TypeOK

LEMMA RemoveStep ==
    ASSUME ConstantsOK, IInv, NEW ts \in SUBSET Tokens, Remove(ts)
    PROVE  IInv'
<1> DEFINE theirs == {a \in All : \E t \in ts : at[a] = Bin(t)}
<1>1. TypeOK /\ Apart /\ Recorded
  BY DEF IInv
<1>2. /\ ops < MaxOps /\ ops' = ops + 1 /\ names' = names /\ dirs' = dirs
      /\ purged' = purged \union theirs /\ Answer
  BY DEF Remove, Begin
<1>3. PICK gone \in SUBSET theirs, bare \in SUBSET ts :
        /\ at' = [a \in All |-> IF a \in gone THEN None ELSE at[a]]
        /\ entry' = [t \in Tokens |-> IF t \in bare THEN None ELSE entry[t]]
  <2>1. theirs \in SUBSET theirs /\ ts \in SUBSET ts
    OBVIOUS
  <2>2. \/ /\ at' = [a \in All |-> IF a \in theirs THEN None ELSE at[a]]
           /\ entry' = [t \in Tokens |-> IF t \in ts THEN None ELSE entry[t]]
        \/ \E gone \in SUBSET theirs, bare \in SUBSET ts :
              /\ at' = [a \in All |-> IF a \in gone THEN None ELSE at[a]]
              /\ entry' = [t \in Tokens |-> IF t \in bare THEN None ELSE entry[t]]
    BY DEF Remove
  <2>3. QED
    BY <2>1, <2>2
<1>4. faults' \in 0..Faults /\ ops' \in 0..MaxOps /\ purged' \in SUBSET All
  BY <1>1, <1>2 DEF Remove, Fault, TypeOK, ConstantsOK
<1>5. /\ at' \in [All -> Places \union {None}]
      /\ entry' \in [Tokens -> Paths \union {None}]
  BY <1>1, <1>3 DEF TypeOK
<1>6. \A a \in All : at'[a] = at[a] \/ at'[a] = None
  BY <1>3
<1>7. \A a \in All : at'[a] \in Paths => at'[a][1] \in dirs'
  BY <1>1, <1>2, <1>6, OfOneKind DEF TypeOK, Places
<1>8. Apart'
  BY <1>1, <1>6 DEF Apart
<1>9. Recorded'
  <2>1. SUFFICES ASSUME NEW a \in All, NEW t \in Tokens, at'[a] = Bin(t)
                 PROVE  t <= ops' /\ (a \in purged' \/ entry'[t] # None)
    BY DEF Recorded
  <2>2. at[a] = Bin(t)
    BY <1>6, <2>1, OfOneKind DEF Places
  <2>3. t <= ops' /\ (a \in purged \/ entry[t] # None)
    BY <1>1, <1>2, <2>2 DEF Recorded, TypeOK, Tokens
  <2>4. CASE t \in ts
    BY <1>2, <2>2, <2>3, <2>4
  <2>5. CASE t \notin ts
    BY <1>2, <1>3, <2>3, <2>5
  <2>6. QED
    BY <2>4, <2>5
<1>10. QED
  BY <1>1, <1>2, <1>4, <1>5, <1>7, <1>8, <1>9, AnsweredIsOver, OverIsEnough DEF TypeOK

LEMMA RemoveDirectoryStep ==
    ASSUME ConstantsOK, IInv, NEW d \in Dirs, RemoveDirectory(d)
    PROVE  IInv'
<1>1. TypeOK /\ Apart /\ Recorded /\ Failing
  BY DEF IInv
<1>2. /\ op = Idle /\ \A a \in All : at[a] \in Paths \union Temps => at[a][1] # d
      /\ dirs' = dirs \ {d} /\ at' = at /\ names' = names /\ entry' = entry
      /\ op' = op /\ failed' = failed /\ purged' = purged /\ ops' = ops /\ faults' = faults
  BY DEF RemoveDirectory
<1>3. Apart' /\ \A a \in All : at'[a] \in Paths => at'[a][1] \in dirs'
  BY <1>1, <1>2 DEF Apart, TypeOK
<1>4. Recorded'
  BY <1>1, <1>2, StillRecorded DEF TypeOK
<1>5. Deleting' /\ Renaming' /\ Restoring'
  BY <1>2, IdleIsOne DEF Deleting, Renaming, Restoring
<1>6. Failing'
  BY <1>1, <1>2 DEF Failing, ErrorLeaves, LeadsTo, FileFrom, PathNamed
<1>7. Over'
  BY <1>1, <1>2, <1>5, <1>6 DEF Over, TypeOK, Operations, Failures
<1>8. QED
  BY <1>1, <1>2, <1>3, <1>4, <1>7, OverIsEnough DEF TypeOK

LEMMA CrashStep ==
    ASSUME ConstantsOK, IInv, Crash
    PROVE  IInv'
<1>1. TypeOK /\ Recorded
  BY DEF IInv
<1>2. /\ Fault /\ Answer /\ at' = at /\ names' = names /\ entry' = entry /\ dirs' = dirs
      /\ purged' = purged /\ ops' = ops
  BY DEF Crash
<1>3. faults' \in 0..Faults
  BY <1>1, <1>2 DEF TypeOK, Fault, ConstantsOK
<1>4. Over' /\ Recorded'
  BY <1>1, <1>2, AnsweredIsOver, StillRecorded DEF TypeOK
<1>5. QED
  BY <1>1, <1>2, <1>3, <1>4, StandingStep DEF TypeOK

LEMMA NextStep ==
    ASSUME ConstantsOK, IInv, [Next]_vars
    PROVE  IInv'
<1>1. CASE \E f \in AssetFiles : Import(f)
  BY <1>1, ImportStep
<1>2. CASE \E a \in All : Rename(a) \/ Move(a) \/ Delete(a)
  BY <1>2, RenameStep, MoveStep, DeleteStep
<1>3. CASE RenameFromTemp \/ DeleteMeta \/ DeleteMove
  BY <1>3, RenameFromTempStep, DeleteMetaStep, DeleteMoveStep
<1>4. CASE \E t \in Tokens : Restore(t) \/ Purge(t)
  BY <1>4, RestoreStep, RemoveStep DEF Purge
<1>5. CASE RestoreMove \/ RestoreClean
  BY <1>5, RestoreMoveStep, RestoreCleanStep
<1>6. CASE Empty \/ Crash
  BY <1>6, RemoveStep, CrashStep DEF Empty
<1>7. CASE \E d \in Dirs : RemoveDirectory(d)
  BY <1>7, RemoveDirectoryStep
<1>8. CASE UNCHANGED vars
  BY <1>8 DEF vars, IInv, TypeOK, Apart, Recorded, Deleting, Renaming, Restoring, Failing,
              ErrorLeaves, Free, LeadsTo, FileFrom, PathNamed
<1>9. QED
  BY <1>1, <1>2, <1>3, <1>4, <1>5, <1>6, <1>7, <1>8 DEF Next

-----------------------------------------------------------------------------
\* The theorems

\* Type correctness with the facts about the operation under way: for any files, links,
\* directories and names, and any number of operations, failures and crashes.
THEOREM Inductive == ASSUME ConstantsOK PROVE Spec => []IInv
<1>1. Init => IInv
  BY InitInv
<1>2. IInv /\ [Next]_vars => IInv'
  BY NextStep
<1>3. QED
  BY <1>1, <1>2, PTL DEF Spec

\* The types of AssetStore, and that every asset at a path is in a directory there is.
THEOREM TypeCorrect == ASSUME ConstantsOK PROVE Spec => []TypeOK
<1>1. IInv => TypeOK
  BY DEF IInv
<1>2. QED
  BY <1>1, Inductive, PTL

\* DeleteAsset, RestoreDeletedAsset: a deleted asset that leads to a file is listed until
\* its removal for good is asked for, whatever failed and wherever the process
\* ended; and what was answered with an error is where it was.
THEOREM Recoverable == ASSUME ConstantsOK PROVE Spec => []DeletedRecoverable
<1>1. IInv => NoneStranded
  <2>1. SUFFICES ASSUME IInv, NEW a \in All \ purged, NEW t \in Tokens,
                        at[a] = Bin(t), LeadsTo(a) # {}
                 PROVE  Listed(t)
    BY DEF NoneStranded
  <2>2. entry[t] # None
    BY <2>1 DEF IInv, Recorded
  <2>3. QED
    BY <2>1, <2>2 DEF Listed
<1>2. IInv => ErrorLeaves
  BY DEF IInv, Failing
<1>3. IInv => DeletedRecoverable
  BY <1>1, <1>2 DEF DeletedRecoverable
<1>4. QED
  BY <1>3, Inductive, PTL

\* The file a renaming loses is that at the destination.
LEMMA RenamedLoses ==
    ASSUME NEW a \in All, NEW dest, dest # None, at' = Renamed(a, dest),
           NEW f \in AssetFiles, at[f] # None, at'[f] = None
    PROVE  f # a /\ at[f] = dest
BY DEF Renamed, All

LEMMA NextLosesNothing ==
    ASSUME ConstantsOK, IInv, [Next]_vars
    PROVE  LosesNothing
<1> SUFFICES ASSUME NEW f \in AssetFiles, at[f] # None, at'[f] = None
             PROVE  \/ f \in purged'
                    \/ op.pc = "viaTemp" /\ op.asset \in Links /\ at[f] = op.dest
                    \/ op'.pc = "viaTemp" /\ at[f] \in Temps /\ at[f] = at'[op'.asset]
  BY DEF LosesNothing
<1>1. TypeOK /\ Deleting /\ Renaming /\ Restoring
  BY DEF IInv
<1>2. f \in All /\ at' # at
  BY DEF All
<1>3. \A p \in Places : p # None
  BY OfOneKind
<1>4. ASSUME NEW g \in AssetFiles, Import(g) PROVE FALSE
  <2>1. PICK n \in BaseNames : \E p \in FreePath(<<Assets, n>>) : at' = [at EXCEPT ![g] = p]
    BY <1>2, <1>4 DEF Import
  <2>2. PICK p \in FreePath(<<Assets, n>>) : at' = [at EXCEPT ![g] = p]
    BY <2>1
  <2>3. p \in Paths
    BY <2>2, FreePathIsFree DEF ConstantsOK, Paths
  <2>4. QED
    BY <1>1, <1>2, <1>3, <2>2, <2>3 DEF TypeOK, Places
<1>5. ASSUME NEW a \in All, Rename(a)
      PROVE  op'.pc = "viaTemp" /\ at[f] \in Temps /\ at[f] = at'[op'.asset]
  <2>1. a \in Servable
    BY <1>5 DEF Rename
  <2> DEFINE Dest(n) == <<at[a][1], n>>
             There(n) == {b \in Servable \ {a} : at[b] = Dest(n)}
  <2>2. PICK n \in BaseNames :
          \/ There(n) = {} /\ at' = Renamed(a, Dest(n))
          \/ /\ at' = Renamed(a, TempOf(at[a]))
             /\ Start([Idle EXCEPT !.pc = "viaTemp", !.asset = a, !.dest = Dest(n)])
    BY <1>2, <1>5 DEF Rename
  <2>3. at[a] \in Paths /\ Dest(n) \in Paths /\ TempOf(at[a]) \in Temps
    BY <1>1, <2>1, <2>2, ServableIsAtPath, OfOneKind
  <2>4. ASSUME There(n) = {}, at' = Renamed(a, Dest(n)) PROVE FALSE
    <3>1. f # a /\ at[f] = Dest(n)
      BY <1>3, <2>3, <2>4, RenamedLoses DEF Places
    <3>2. f \in Servable
      BY <1>2, <2>3, <3>1 DEF Servable, Present, LeadsTo, FileFrom
    <3>3. QED
      BY <2>4, <3>1, <3>2
  <2>5. CASE /\ at' = Renamed(a, TempOf(at[a]))
             /\ Start([Idle EXCEPT !.pc = "viaTemp", !.asset = a, !.dest = Dest(n)])
    <3>1. at[f] = TempOf(at[a])
      BY <1>3, <2>3, <2>5, RenamedLoses DEF Places
    <3>2. op'.pc = "viaTemp" /\ op'.asset = a
      BY <2>5 DEF Start, Idle
    <3>3. at'[a] = TempOf(at[a])
      BY <2>5 DEF Renamed
    <3>4. QED
      BY <2>3, <3>1, <3>2, <3>3
  <2>6. QED
    BY <2>2, <2>4, <2>5
<1>6. ASSUME RenameFromTemp
      PROVE  op.pc = "viaTemp" /\ op.asset \in Links /\ at[f] = op.dest
  <2>1. op.pc = "viaTemp" /\ at' = Renamed(op.asset, op.dest)
    BY <1>2, <1>6 DEF RenameFromTemp
  <2>2. /\ op.asset \in All /\ op.dest \in Places
        /\ \A g \in AssetFiles : at[g] = op.dest => op.asset \in Links
    BY <1>1, <2>1 DEF Renaming, Places
  <2>3. QED
    BY <1>3, <2>1, <2>2, RenamedLoses
<1>7. ASSUME NEW a \in All, Move(a) PROVE FALSE
  <2>1. a \in Servable
    BY <1>7 DEF Move
  <2>2. PICK d \in Dirs : \E p \in FreePath(<<d, at[a][2]>>) : at' = Renamed(a, p)
    BY <1>2, <1>7 DEF Move
  <2>3. PICK p \in FreePath(<<d, at[a][2]>>) : at' = Renamed(a, p)
    BY <2>2
  <2>4. <<d, at[a][2]>> \in Paths
    BY <1>1, <2>1, <2>2, ServableIsAtPath DEF Paths
  <2>5. p \in Places /\ Free(p)
    BY <2>3, <2>4, FreePathIsFree DEF Places
  <2>6. QED
    BY <1>2, <1>3, <2>3, <2>5, RenamedLoses DEF Free
<1>8. ASSUME DeleteMove PROVE FALSE
  <2>1. at' = Renamed(op.asset, Bin(op.token)) /\ op.pc = "move"
    BY <1>2, <1>8 DEF DeleteMove
  <2>2. op.asset \in All /\ Bin(op.token) \in Places /\ Free(Bin(op.token))
    BY <1>1, <2>1, OfOneKind DEF Deleting, Places
  <2>3. QED
    BY <1>2, <1>3, <2>1, <2>2, RenamedLoses DEF Free
<1>9. ASSUME RestoreMove PROVE FALSE
  <2>1. op.pc = "restore" /\ \E a \in Restorable(op.token) : at' = Renamed(a, op.dest)
    BY <1>2, <1>9 DEF RestoreMove, Restored
  <2>2. PICK a \in All : at' = Renamed(a, op.dest)
    BY <2>1 DEF Restorable
  <2>3. op.dest \in Places /\ Free(op.dest)
    BY <1>1, <2>1 DEF Restoring, Places
  <2>4. QED
    BY <1>2, <1>3, <2>2, <2>3, RenamedLoses DEF Free
<1>10. ASSUME RestoreClean PROVE FALSE
  <2>1. op.token \in Tokens /\ Free(Bin(op.token))
    BY <1>1, <1>10 DEF Restoring, RestoreClean
  <2>2. QED
    BY <1>1, <1>2, <1>10, <2>1 DEF RestoreClean, Free, TypeOK
<1>11. ASSUME NEW ts \in SUBSET Tokens, Remove(ts) PROVE f \in purged'
  <2> DEFINE theirs == {a \in All : \E t \in ts : at[a] = Bin(t)}
  <2>1. /\ purged' = purged \union theirs
        /\ \E gone \in SUBSET theirs :
             at' = [a \in All |-> IF a \in gone THEN None ELSE at[a]]
    BY <1>11 DEF Remove
  <2>2. QED
    BY <1>2, <2>1
<1>12. CASE \/ \E a \in All : Delete(a)
            \/ DeleteMeta \/ Crash
            \/ \E t \in Tokens : Restore(t)
            \/ \E d \in Dirs : RemoveDirectory(d)
            \/ UNCHANGED vars
  BY <1>2, <1>12 DEF Delete, DeleteMeta, Crash, Restore, RemoveDirectory, vars
<1>13. QED
  BY <1>4, <1>5, <1>6, <1>7, <1>8, <1>9, <1>10, <1>11, <1>12 DEF Next, Purge, Empty

\* Every operation on assets: no step destroys a file whose removal for good was not asked
\* for, but the two renamings by way of a temporary name that LosesNothing names.
THEOREM NothingDestroyed == ASSUME ConstantsOK PROVE Spec => NothingLost
<1>1. IInv /\ [Next]_vars => [LosesNothing]_vars
  BY NextLosesNothing
<1>2. QED
  BY <1>1, Inductive, PTL DEF Spec, NothingLost
=============================================================================
